---- MODULE Spec2Model ----
(***************************************************************************)
(* Model of the trading core of Velocity: OrderBook (market_data.cpp),     *)
(* MatchingEngine and OrderManager (order_manager.cpp).                    *)
(*                                                                         *)
(* Prices are counted in ticks; every order price offered to the model is  *)
(* an even number of ticks so that the midpoint (bid + ask) / 2.0 of       *)
(* match_orders is again a whole number of ticks.                          *)
(***************************************************************************)
EXTENDS Integers, Sequences, FiniteSets, TLC

(* ---------------- bounds of the model ---------------- *)
\* orders placed in a run of Spec (unit orders) and of SpecWide (all orders)
MaxOrders == 4
MaxWideOrders == 3
\* orders accepted in a run of SpecRisk, and place_order calls that return 0
MaxRiskOrders == 3
MaxRejections == 1
\* orders accepted in a run of SpecUnregistered
MaxStrayOrders == 3
\* add_order calls on a book in a run of SpecBook
MaxBookOrders == 3
\* add_order calls on a book, and orders in it, in a run of SpecBookOps
MaxOpsOrders == 2
\* orders accepted in a run of SpecCallbacks
MaxCallbackOrders == 3
\* orders accepted in a run of SpecStop
MaxStopOrders == 2
\* orders accepted in a run of SpecSynthetic
MaxSyntheticOrders == 2
\* orders accepted in a run of SpecModify
MaxModifyOrders == 3
\* Executions delivered in a run of SpecPositions
MaxExecutions == 3

(* ---------------- input domains ---------------- *)
Symbols == {"AAPL"}
\* symbols callers name without having handed them to add_symbol
UnregisteredSymbols == {"MSFT"}
OrderTraders == {"T1"}
Traders == {"T1", "T2"}
Prices == {2, 4}
Quantities == {0, 1, 2}
Sides == {"BUY", "SELL"}
Types == {"LIMIT", "MARKET"}

\* the symbols and quantities of the Executions delivered to on_execution
ExecSymbols == {"AAPL", "MSFT"}
ExecQuantities == {1, 2}

\* the limits callers hand to set_risk_limits: max_position_value and the
\* max_order_size values, in the units of Prices and Quantities
SmallMaxPositionValue == 5
SmallOrderSizes == {1, 2}

(* Position::quantity is an int32_t and Order::quantity a uint32_t.  The
   integers of the model checker are themselves 32 bits wide, so the model
   keeps the two's-complement arithmetic but on a machine word of WordBits
   bits: signed values lie in -2^(WordBits-1) .. 2^(WordBits-1)-1 and
   unsigned ones in 0 .. 2^WordBits-1. *)
WordBits == 16
WordModulus == 2^WordBits

(* RiskLimits::RiskLimits() *)
DefaultMaxPositionValue == 1000000
DefaultMaxOrderSize == 10000
DefaultMaxDailyLoss == 50000

VARIABLES
    running,              \* MatchingEngine::running_
    worker_pc,            \* matching thread: "none" (not spawned), "idle", "busy"
    cur,                  \* the Order the worker popped and is processing
    order_queue,          \* MatchingEngine::order_queue_
    order_id_counter,     \* MatchingEngine::order_id_counter_
    execution_id_counter, \* MatchingEngine::execution_id_counter_
    order_books,          \* MatchingEngine::order_books_  (symbol -> OrderBook)
    active_orders,        \* OrderManager::active_orders_  (<<trader, id>> -> Order)
    positions,            \* OrderManager::positions_      (symbol -> Position)
    risk_limits,          \* OrderManager::risk_limits_
    daily_pnl,            \* OrderManager::daily_pnl_
    max_drawdown,         \* OrderManager::max_drawdown_
    peak_equity,          \* OrderManager::peak_equity_
    executions,           \* history: Executions handed to the execution callback
    returned,             \* history: ids returned by submit_order, in call order
    dequeued,             \* history: ids popped by the worker, in pop order
    cancelled,            \* history: ids for which cancel_order returned true
    removals,             \* history: the orders matching took out of a level
    rejections,           \* history: place_order calls that returned 0
    callbacks,            \* OrderManager::execution_callback_ / position_callback_ set
    fired,                \* the callback invocations of the latest operation:
                          \* which callback, the locks its thread held, the
                          \* arguments, the id a nested place_order returned
    stop_pc,              \* the thread in MatchingEngine::stop: "idle", "flagged",
                          \* "notified", "returned"
    mutex_owner,          \* manager_mutex_, engine_mutex_, book_mutex_: the
                          \* thread that holds the mutex, or "none"
    agenda                \* per thread: the lock operations and data accesses
                          \* left in the operation the thread is executing

\* the threads whose lock operations are followed: the engine's worker and
\* two threads calling the manager's public operations
Callers == {"caller1", "caller2"}
Threads == {"worker"} \cup Callers

Mutexes == {"manager_mutex", "engine_mutex", "book_mutex"}

vars == <<running, worker_pc, cur, order_queue, order_id_counter,
          execution_id_counter, order_books, active_orders, positions,
          risk_limits, daily_pnl, max_drawdown, peak_equity, mutex_owner,
          agenda, executions, returned, dequeued, cancelled, removals,
          rejections, callbacks, fired, stop_pc>>

(* ---------------- data types ---------------- *)

\* struct Order (timestamp left out: it is written and never read)
Order(sym, side, type, price, qty, trader) ==
    [id |-> 0, symbol |-> sym, side |-> side, type |-> type, price |-> price,
     quantity |-> qty, filled_quantity |-> 0, status |-> "PENDING",
     trader_id |-> trader]

NoOrder == Order("", "BUY", "LIMIT", 0, 0, "")

\* struct PriceLevel
PriceLevel(p) == [price |-> p, total_quantity |-> 0, orders |-> <<>>]

\* an empty std::map<double, PriceLevel>
EmptyMap == [p \in {} |-> PriceLevel(0)]

\* OrderBook::OrderBook(symbol); bids/asks are maps price -> PriceLevel,
\* book_mutex is "free" or "held", price_callback tells whether a
\* price-update callback is set
OrderBook(sym) ==
    [symbol |-> sym, bids |-> EmptyMap, asks |-> EmptyMap, last_price |-> 0,
     best_bid |-> 0, best_ask |-> 0, sequence_number |-> 0,
     book_mutex |-> "free", price_callback |-> FALSE]

\* struct Position
Position == [quantity |-> 0, avg_price |-> 0]

\* struct RiskLimits
RiskLimits(value, size, loss) ==
    [max_position_value |-> value, max_order_size |-> size,
     max_daily_loss |-> loss]

(* ---------------- helpers ---------------- *)

MaxOf(S) == CHOOSE x \in S : \A y \in S : y <= x
MinOf(S) == CHOOSE x \in S : \A y \in S : x <= y
Min2(a, b) == IF a <= b THEN a ELSE b
Abs(x) == IF x < 0 THEN -x ELSE x

\* keys of a std::map in iteration order: bids_ uses std::greater, asks_ std::less
RECURSIVE Descending(_)
Descending(S) ==
    IF S = {} THEN <<>> ELSE <<MaxOf(S)>> \o Descending(S \ {MaxOf(S)})

RECURSIVE Ascending(_)
Ascending(S) ==
    IF S = {} THEN <<>> ELSE <<MinOf(S)>> \o Ascending(S \ {MinOf(S)})

\* map with key k removed / set
Erase(m, k) == [x \in DOMAIN m \ {k} |-> m[x]]
Put(m, k, v) == [x \in DOMAIN m \cup {k} |-> IF x = k THEN v ELSE m[x]]

RemoveAt(s, i) == [j \in 1..(Len(s) - 1) |-> IF j < i THEN s[j] ELSE s[j + 1]]

RECURSIVE SumQty(_)
SumQty(s) == IF s = <<>> THEN 0 ELSE Head(s).quantity + SumQty(Tail(s))

(* ---------------- OrderBook (market_data.cpp) ---------------- *)

\* mutant of update_best_prices: the cached price of a side that has become
\* empty is kept
update_best_prices_stale(b) ==
    LET bb == IF DOMAIN b.bids # {} THEN MaxOf(DOMAIN b.bids) ELSE b.best_bid
        ba == IF DOMAIN b.asks # {} THEN MinOf(DOMAIN b.asks) ELSE b.best_ask
    IN [b EXCEPT !.best_bid = bb,
                 !.best_ask = ba,
                 !.last_price = IF bb > 0 /\ ba > 0 THEN (bb + ba) \div 2 ELSE @]

\* OrderBook::update_best_prices
update_best_prices(b) ==
    LET bb == IF DOMAIN b.bids # {} THEN MaxOf(DOMAIN b.bids) ELSE 0
        ba == IF DOMAIN b.asks # {} THEN MinOf(DOMAIN b.asks) ELSE 0
    IN [b EXCEPT !.best_bid = bb,
                 !.best_ask = ba,
                 !.last_price = IF bb > 0 /\ ba > 0 THEN (bb + ba) \div 2 ELSE @]

\* OrderBook::notify_price_update, run by a thread that holds the locks
\* held: the invocations of the price-update callback it makes
notify_price_update(b, held) ==
    IF b.price_callback
    THEN {[kind |-> "price", held |-> held, symbol |-> b.symbol,
           args |-> <<b.best_bid, b.best_ask>>, nested |-> 0]}
    ELSE {}

\* mutant of PushBack: the order is put at the head of its level
PushFront(m, price, o) ==
    LET level == IF price \in DOMAIN m THEN m[price] ELSE PriceLevel(0)
    IN Put(m, price, [price |-> price,
                      total_quantity |-> level.total_quantity + o.quantity,
                      orders |-> <<o>> \o level.orders])

\* level.orders.push_back(new_order); level.total_quantity += order.quantity
\* on the level bids_[price] / asks_[price], created by operator[] when absent
PushBack(m, price, o) ==
    LET level == IF price \in DOMAIN m THEN m[price] ELSE PriceLevel(0)
    IN Put(m, price, [price |-> price,
                      total_quantity |-> level.total_quantity + o.quantity,
                      orders |-> Append(level.orders, o)])

\* OrderBook::add_order.  The copy that rests gets the book's own id
\* (++sequence_number_); eid is a history field that remembers the id the
\* engine had given the order, and no operator of the model reads it.
add_order(b, order) ==
    LET seq == b.sequence_number + 1
        new_order == [order EXCEPT !.id = seq] @@ [eid |-> order.id]
        b1 == [b EXCEPT !.sequence_number = seq]
        b2 == IF order.side = "BUY"
              THEN [b1 EXCEPT !.bids = PushBack(b1.bids, order.price, new_order)]
              ELSE [b1 EXCEPT !.asks = PushBack(b1.asks, order.price, new_order)]
    IN update_best_prices(b2)

\* the callback invocations of add_order: notify_price_update runs inside
\* the scope of the lock_guard on book_mutex_
add_order_fires(b, order) ==
    notify_price_update(add_order(b, order), {"book_mutex"})

\* OrderBook::set_price_update_callback
set_price_update_callback(b) == [b EXCEPT !.price_callback = TRUE]

\* OrderBook::set_last_price and its callback invocations
set_last_price(b, price) ==
    update_best_prices([b EXCEPT !.last_price = price])

set_last_price_fires(b, price) ==
    notify_price_update(set_last_price(b, price), {"book_mutex"})

\* OrderBook::clear_book
clear_book(b) ==
    update_best_prices([b EXCEPT !.bids = EmptyMap, !.asks = EmptyMap])

\* OrderBook::add_limit_order: a synthetic order with id 0 and trader "SIM";
\* sequence_number_ is not advanced
add_limit_order(b, price, quantity, side) ==
    LET synthetic == [Order(b.symbol, side, "LIMIT", price, quantity, "SIM")
                         EXCEPT !.id = 0] @@ [eid |-> 0]
    IN update_best_prices(
           IF side = "BUY"
           THEN [b EXCEPT !.bids = PushBack(b.bids, price, synthetic)]
           ELSE [b EXCEPT !.asks = PushBack(b.asks, price, synthetic)])

\* index of the first order of a level with this id (std::find_if), 0 if none
FindIf(orders, order_id) ==
    IF \E i \in 1..Len(orders) : orders[i].id = order_id
    THEN MinOf({i \in 1..Len(orders) : orders[i].id = order_id})
    ELSE 0

\* the range-for over a side: <<key>> of the first level, in the iteration
\* order keys, that holds the id; <<>> if no level does
RECURSIVE FindLevel(_, _, _)
FindLevel(m, keys, order_id) ==
    IF keys = <<>> THEN <<>>
    ELSE IF FindIf(m[Head(keys)].orders, order_id) # 0 THEN <<Head(keys)>>
    ELSE FindLevel(m, Tail(keys), order_id)

\* mutant of EraseOrder: the level's total_quantity is left as it was
EraseOrder_keep_total(m, price, order_id) ==
    LET level == m[price]
        i == FindIf(level.orders, order_id)
        rest == RemoveAt(level.orders, i)
    IN IF Len(level.orders) = 1 THEN Erase(m, price)
       ELSE Put(m, price, [level EXCEPT !.orders = rest])

\* level.total_quantity -= it->quantity; level.orders.erase(it);
\* if (level.orders.empty()) map.erase(price)
EraseOrder(m, price, order_id) ==
    LET level == m[price]
        i == FindIf(level.orders, order_id)
        rest == RemoveAt(level.orders, i)
    IN IF Len(level.orders) = 1 THEN Erase(m, price)
       ELSE Put(m, price, [level EXCEPT
                             !.total_quantity = @ - level.orders[i].quantity,
                             !.orders = rest])

\* OrderBook::cancel_order: bids are searched first, then asks
OrderBook_cancel_order(b, order_id) ==
    LET pb == FindLevel(b.bids, Descending(DOMAIN b.bids), order_id)
        pa == FindLevel(b.asks, Ascending(DOMAIN b.asks), order_id)
    IN IF pb # <<>>
       THEN update_best_prices([b EXCEPT !.bids = EraseOrder(b.bids, pb[1], order_id)])
       ELSE IF pa # <<>>
       THEN update_best_prices([b EXCEPT !.asks = EraseOrder(b.asks, pa[1], order_id)])
       ELSE b

\* the order a side holds under this id, as <<order>>, or <<>>
FindOrder(m, keys, order_id) ==
    LET p == FindLevel(m, keys, order_id)
    IN IF p = <<>> THEN <<>>
       ELSE <<m[p[1]].orders[FindIf(m[p[1]].orders, order_id)]>>

\* OrderBook::modify_order, called with book_mutex_ free.  The order is taken
\* out of its level under book_mutex_; then add_order locks book_mutex_
\* again on the thread that holds it, which std::mutex leaves undefined:
\* either the thread waits for itself for ever, the order taken out and the
\* mutex held, or the second lock goes through and add_order runs.  Result:
\* the outcomes possible, each with whether the call returns, the book and
\* the callback invocations made.
OrderBook_modify_order(b, order_id, new_price, new_quantity) ==
    LET ob == FindOrder(b.bids, Descending(DOMAIN b.bids), order_id)
        oa == FindOrder(b.asks, Ascending(DOMAIN b.asks), order_id)
        found == ob # <<>> \/ oa # <<>>
        old_order == IF ob # <<>> THEN ob[1] ELSE oa[1]
        removed == IF ob # <<>>
                   THEN [b EXCEPT !.bids = EraseOrder(b.bids, old_order.price,
                                                      order_id)]
                   ELSE [b EXCEPT !.asks = EraseOrder(b.asks, old_order.price,
                                                      order_id)]
        modified == [old_order EXCEPT !.price = new_price,
                                      !.quantity = new_quantity]
    IN IF ~found THEN {[returns |-> TRUE, book |-> b, fires |-> {}]}
       ELSE {[returns |-> FALSE,
              book |-> [removed EXCEPT !.book_mutex = "held"], fires |-> {}],
             [returns |-> TRUE, book |-> add_order(removed, modified),
              fires |-> add_order_fires(removed, modified)]}

\* OrderBook::get_bid_levels(depth) / get_ask_levels(depth): a snapshot
Snapshot(m, keys, depth) ==
    [i \in 1..Min2(depth, Len(keys)) |-> m[keys[i]]]

get_bid_levels(b, depth) == Snapshot(b.bids, Descending(DOMAIN b.bids), depth)

get_ask_levels(b, depth) == Snapshot(b.asks, Ascending(DOMAIN b.asks), depth)

(* ---------------- MatchingEngine (order_manager.cpp) ---------------- *)

\* struct Execution, as Execution::Execution() leaves it: side is not set
Execution(side) ==
    [order_id |-> 0, execution_id |-> 0, symbol |-> "", side |-> side,
     price |-> 0, quantity |-> 0, trader_id |-> ""]

\* mutant of generate_order_id: the counter is returned, never advanced
generate_order_id_stuck(counter) == counter

\* MatchingEngine::generate_order_id / generate_execution_id: ++counter
generate_order_id(counter) == counter + 1

generate_execution_id(counter) == counter + 1

\* MatchingEngine::get_order_book (non-const): order_books_[symbol] inserts a
\* default-constructed OrderBook() when the symbol has none
get_order_book(books, symbol) ==
    IF symbol \in DOMAIN books THEN books
    ELSE [s \in DOMAIN books \cup {symbol} |->
            IF s = symbol THEN OrderBook("") ELSE books[s]]

\* mutant of add_symbol: the symbol's book is replaced by an empty one
add_symbol_replace(books, symbol) ==
    [s \in DOMAIN books \cup {symbol} |->
        IF s = symbol THEN OrderBook(symbol) ELSE books[s]]

\* MatchingEngine::add_symbol: emplace keeps an existing book
add_symbol(books, symbol) ==
    IF symbol \in DOMAIN books THEN books
    ELSE [s \in DOMAIN books \cup {symbol} |->
            IF s = symbol THEN OrderBook(symbol) ELSE books[s]]

\* MatchingEngine::match_orders on the book of one symbol.  exec_counter is
\* execution_id_counter_; side is the value the never-assigned
\* execution.side happens to hold.  Result: the book, the Executions handed
\* to execution_callback_ and execution_id_counter_.
match_orders(b, symbol, exec_counter, side) ==
    LET best_bid == b.best_bid
        best_ask == b.best_ask
        bid_levels == get_bid_levels(b, 1)
        ask_levels == get_ask_levels(b, 1)
        match_quantity == Min2(bid_levels[1].total_quantity,
                               ask_levels[1].total_quantity)
        execution == [Execution(side) EXCEPT
                        !.execution_id = generate_execution_id(exec_counter),
                        !.symbol = symbol,
                        !.price = (best_bid + best_ask) \div 2,
                        !.quantity = match_quantity]
        b1 == OrderBook_cancel_order(b, bid_levels[1].orders[1].id)
        b2 == OrderBook_cancel_order(b1, ask_levels[1].orders[1].id)
    IN IF best_bid <= 0 \/ best_ask <= 0
       THEN [book |-> b, execs |-> <<>>, counter |-> exec_counter]
       ELSE IF best_bid >= best_ask /\ bid_levels # <<>> /\ ask_levels # <<>>
               /\ match_quantity > 0
       THEN [book |-> b2, execs |-> <<execution>>,
             counter |-> execution.execution_id]
       ELSE [book |-> b, execs |-> <<>>, counter |-> exec_counter]

\* mutant of process_market_order: the Execution is priced at the best
\* price of the order's own side
process_market_order_own_side(b, order, exec_counter) ==
    LET best == IF order.side = "BUY" THEN b.best_ask ELSE b.best_bid
        own == IF order.side = "BUY" THEN b.best_bid ELSE b.best_ask
        levels == IF order.side = "BUY" THEN get_ask_levels(b, 1)
                  ELSE get_bid_levels(b, 1)
        match_quantity == Min2(order.quantity, levels[1].total_quantity)
        execution == [Execution(order.side) EXCEPT
                        !.execution_id = generate_execution_id(exec_counter),
                        !.symbol = order.symbol,
                        !.price = own,
                        !.quantity = match_quantity,
                        !.trader_id = order.trader_id,
                        !.order_id = order.id]
    IN IF best > 0 /\ levels # <<>> /\ match_quantity > 0
       THEN [book |-> OrderBook_cancel_order(b, levels[1].orders[1].id),
             execs |-> <<execution>>, counter |-> execution.execution_id]
       ELSE [book |-> b, execs |-> <<>>, counter |-> exec_counter]

\* MatchingEngine::process_market_order on the book of the order's symbol
process_market_order(b, order, exec_counter) ==
    LET best == IF order.side = "BUY" THEN b.best_ask ELSE b.best_bid
        levels == IF order.side = "BUY" THEN get_ask_levels(b, 1)
                  ELSE get_bid_levels(b, 1)
        match_quantity == Min2(order.quantity, levels[1].total_quantity)
        execution == [Execution(order.side) EXCEPT
                        !.execution_id = generate_execution_id(exec_counter),
                        !.symbol = order.symbol,
                        !.price = best,
                        !.quantity = match_quantity,
                        !.trader_id = order.trader_id,
                        !.order_id = order.id]
    IN IF best > 0 /\ levels # <<>> /\ match_quantity > 0
       THEN [book |-> OrderBook_cancel_order(b, levels[1].orders[1].id),
             execs |-> <<execution>>, counter |-> execution.execution_id]
       ELSE [book |-> b, execs |-> <<>>, counter |-> exec_counter]

\* MatchingEngine::process_order up to the status callback: the books and
\* the Executions handed to execution_callback_
process_order(books, order, exec_counter, side) ==
    LET books1 == get_order_book(books, order.symbol)
        b == books1[order.symbol]
        r == IF order.type = "MARKET"
             THEN process_market_order(b, order, exec_counter)
             ELSE match_orders(add_order(b, order), order.symbol,
                               exec_counter, side)
    IN [books |-> [books1 EXCEPT ![order.symbol] = r.book], execs |-> r.execs,
        counter |-> r.counter]

\* MatchingEngine::submit_order: the stamped order, pushed on the queue
submit_order(queue, counter, order) ==
    LET new_order == [order EXCEPT !.id = generate_order_id(counter)]
    IN [id |-> new_order.id, queue |-> Append(queue, new_order),
        counter |-> new_order.id]

\* mutant of CancelInQueue: the match is pushed back like every other order
CancelInQueue_keep(queue, order_id, trader_id) == queue

\* MatchingEngine::cancel_order: the queue is rebuilt without the match
RECURSIVE CancelInQueue(_, _, _)
CancelInQueue(queue, order_id, trader_id) ==
    IF queue = <<>> THEN <<>>
    ELSE IF Head(queue).id = order_id /\ Head(queue).trader_id = trader_id
         THEN CancelInQueue(Tail(queue), order_id, trader_id)
         ELSE <<Head(queue)>> \o CancelInQueue(Tail(queue), order_id, trader_id)

\* mutant of MatchingEngine_cancel_order: the orders kept come back in
\* reverse, as from a stack
RECURSIVE Reverse(_)
Reverse(q) == IF q = <<>> THEN <<>> ELSE Reverse(Tail(q)) \o <<Head(q)>>

MatchingEngine_cancel_order_lifo(queue, order_id, trader_id) ==
    [found |-> \E i \in 1..Len(queue) :
                  queue[i].id = order_id /\ queue[i].trader_id = trader_id,
     queue |-> Reverse(CancelInQueue(queue, order_id, trader_id))]

\* mutant of MatchingEngine_cancel_order: the trader_id is not compared
MatchingEngine_cancel_order_any_trader(queue, order_id, trader_id) ==
    [found |-> \E i \in 1..Len(queue) : queue[i].id = order_id,
     queue |-> SelectSeq(queue, LAMBDA o : o.id # order_id)]

MatchingEngine_cancel_order(queue, order_id, trader_id) ==
    [found |-> \E i \in 1..Len(queue) :
                  queue[i].id = order_id /\ queue[i].trader_id = trader_id,
     queue |-> CancelInQueue(queue, order_id, trader_id)]

\* mutant of MatchingEngine_modify_order: the trader is not compared
MatchingEngine_modify_order_any_trader(queue, order_id, new_price, new_quantity, trader_id) ==
    [found |-> \E i \in 1..Len(queue) : queue[i].id = order_id,
     queue |-> [i \in 1..Len(queue) |->
                  IF queue[i].id = order_id
                  THEN [queue[i] EXCEPT !.price = new_price,
                                        !.quantity = new_quantity]
                  ELSE queue[i]]]

\* MatchingEngine::modify_order: the match is rewritten in place
MatchingEngine_modify_order(queue, order_id, new_price, new_quantity, trader_id) ==
    [found |-> \E i \in 1..Len(queue) :
                  queue[i].id = order_id /\ queue[i].trader_id = trader_id,
     queue |-> [i \in 1..Len(queue) |->
                  IF queue[i].id = order_id /\ queue[i].trader_id = trader_id
                  THEN [queue[i] EXCEPT !.price = new_price,
                                        !.quantity = new_quantity]
                  ELSE queue[i]]]

(* ---------------- OrderManager (order_manager.cpp) ---------------- *)

\* OrderManager::get_position
get_position(pos, symbol) ==
    IF symbol \in DOMAIN pos THEN pos[symbol] ELSE Position

\* the value of a signed machine word with the bits of x (the conversion of
\* an unsigned result back to int32_t)
ToSigned(x) ==
    LET u == x % WordModulus
    IN IF u >= WordModulus \div 2 THEN u - WordModulus ELSE u

\* OrderManager::check_position_limits: new_quantity is an int32_t and
\* order.quantity a uint32_t, so += and -= are computed modulo the word size
\* and stored back as a signed value.  (std::abs of the lowest int32_t is
\* undefined; no order offered in this module projects to it.)
check_position_limits(pos, limits, order) ==
    LET current_position == get_position(pos, order.symbol)
        new_quantity == IF order.side = "BUY"
                        THEN ToSigned(current_position.quantity + order.quantity)
                        ELSE ToSigned(current_position.quantity - order.quantity)
    IN Abs(new_quantity) <= limits.max_order_size

\* mutant of check_daily_loss_limit: a loss equal to the limit passes
check_daily_loss_limit_inclusive(pnl, limits) == pnl >= -limits.max_daily_loss

\* OrderManager::check_daily_loss_limit
check_daily_loss_limit(pnl, limits) == pnl > -limits.max_daily_loss

\* OrderManager::check_risk_limits
check_risk_limits(pos, limits, pnl, order) ==
    check_position_limits(pos, limits, order) /\ check_daily_loss_limit(pnl, limits)

\* mutant of place_order: the order is submitted before the risk check
place_order_submit_first(queue, counter, active, pos, limits, pnl, order) ==
    LET r == submit_order(queue, counter, order)
    IN IF ~check_risk_limits(pos, limits, pnl, order)
       THEN [id |-> 0, submitted |-> FALSE, queue |-> r.queue,
             counter |-> r.counter, active |-> active]
       ELSE [id |-> r.id, submitted |-> TRUE, queue |-> r.queue,
             counter |-> r.counter,
             active |-> Put(active, <<order.trader_id, r.id>>, order)]

\* OrderManager::place_order: the id returned, whether submit_order was
\* called, the submission queue, the order-id counter and the active-order
\* index after the call
place_order(queue, counter, active, pos, limits, pnl, order) ==
    IF ~check_risk_limits(pos, limits, pnl, order)
    THEN [id |-> 0, submitted |-> FALSE, queue |-> queue, counter |-> counter,
          active |-> active]
    ELSE LET r == submit_order(queue, counter, order)
         IN [id |-> r.id, submitted |-> TRUE, queue |-> r.queue,
             counter |-> r.counter,
             active |-> IF r.id > 0
                        THEN Put(active, <<order.trader_id, r.id>>, order)
                        ELSE active]

\* mutant of update_position: the quantity is added whatever the side
update_position_add(pos, execution) ==
    LET old == get_position(pos, execution.symbol)
        q == old.quantity + execution.quantity
    IN Put(pos, execution.symbol,
           [quantity |-> q,
            avg_price |-> IF q # 0 THEN execution.price ELSE old.avg_price])

\* OrderManager::update_position for one Execution
update_position(pos, execution) ==
    LET old == get_position(pos, execution.symbol)
        q == IF execution.side = "BUY" THEN old.quantity + execution.quantity
             ELSE old.quantity - execution.quantity
        new == [quantity |-> q,
                avg_price |-> IF q # 0 THEN execution.price ELSE old.avg_price]
    IN Put(pos, execution.symbol, new)

\* OrderManager::on_execution over the Executions of one process_order
RECURSIVE on_execution(_, _)
on_execution(pos, execs) ==
    IF execs = <<>> THEN pos
    ELSE on_execution(update_position(pos, Head(execs)), Tail(execs))

\* the locks the worker holds while it runs process_order: matching_loop
\* unlocks engine_mutex_ before the call, and every OrderBook call made by
\* process_order has returned when the engine's execution callback runs
process_order_held == {}

\* the invocation of the position callback by update_position, inside the
\* scope of its lock_guard on manager_mutex_
update_position_fires(pos, execution, cbs, held) ==
    IF "position" \in cbs
    THEN {[kind |-> "position", held |-> held \cup {"manager_mutex"},
           symbol |-> execution.symbol,
           args |-> <<update_position(pos, execution)[execution.symbol].quantity>>,
           nested |-> 0]}
    ELSE {}

\* mutant of on_execution_fires: the execution callback is invoked inside
\* the scope of the lock on manager_mutex_
RECURSIVE on_execution_fires_locked(_, _, _, _, _)
on_execution_fires_locked(pos, execs, cbs, held, nested) ==
    IF execs = <<>> THEN {}
    ELSE update_position_fires(pos, Head(execs), cbs, held)
         \cup (IF "execution" \in cbs
               THEN {[kind |-> "execution",
                      held |-> held \cup {"manager_mutex"},
                      symbol |-> Head(execs).symbol,
                      args |-> <<Head(execs).execution_id>>,
                      nested |-> IF Tail(execs) = <<>> THEN nested ELSE 0]}
               ELSE {})
         \cup on_execution_fires_locked(update_position(pos, Head(execs)),
                                        Tail(execs), cbs, held, nested)

\* the callback invocations of OrderManager::on_execution for each
\* Execution in turn, by a thread that holds the locks held: the position
\* callback from update_position, then the execution callback once
\* update_position has returned; nested is the id returned by the
\* place_order call the callback of the last Execution makes, 0 if none
RECURSIVE on_execution_fires(_, _, _, _, _)
on_execution_fires(pos, execs, cbs, held, nested) ==
    IF execs = <<>> THEN {}
    ELSE update_position_fires(pos, Head(execs), cbs, held)
         \cup (IF "execution" \in cbs
               THEN {[kind |-> "execution", held |-> held,
                      symbol |-> Head(execs).symbol,
                      args |-> <<Head(execs).execution_id>>,
                      nested |-> IF Tail(execs) = <<>> THEN nested ELSE 0]}
               ELSE {})
         \cup on_execution_fires(update_position(pos, Head(execs)),
                                 Tail(execs), cbs, held, nested)

\* OrderManager::cancel_order: the bool returned, the submission queue and
\* the active-order index after the call
OrderManager_cancel_order(queue, active, order_id, trader_id) ==
    LET r == MatchingEngine_cancel_order(queue, order_id, trader_id)
    IN [cancelled |-> r.found,
        queue |-> r.queue,
        active |-> IF r.found THEN Erase(active, <<trader_id, order_id>>)
                   ELSE active]

\* OrderManager::on_order_status
on_order_status(active, order) ==
    IF <<order.trader_id, order.id>> \in DOMAIN active
    THEN [active EXCEPT ![<<order.trader_id, order.id>>] = order]
    ELSE active

(* ---------------- state machine ---------------- *)

\* the orders callers offer: limit orders at a price, market orders without
Orders ==
    {Order(sym, side, "LIMIT", price, qty, trader) :
        sym \in Symbols, side \in Sides, price \in Prices,
        qty \in Quantities, trader \in OrderTraders}
    \cup
    {Order(sym, side, "MARKET", 0, qty, trader) :
        sym \in Symbols, side \in Sides, qty \in Quantities,
        trader \in OrderTraders}

\* the orders of quantity 1 among them
UnitOrders == {o \in Orders : o.quantity = 1}

\* the same orders of quantity 1 for a symbol nobody registered
StrayOrders ==
    {[o EXCEPT !.symbol = s] : o \in UnitOrders, s \in UnregisteredSymbols}

\* the limit orders handed to OrderBook::add_order directly
BookOrders == {o \in Orders : o.type = "LIMIT"}

\* the limit orders of quantity 1 of the first trader, and the quantities
\* offered to add_limit_order
OpsOrders == {o \in UnitOrders : o.type = "LIMIT" /\ o.trader_id = "T1"}

OpsQuantities == {0, 1}

\* the limit orders of quantity 1 of the first trader, placed in a run of
\* SpecCallbacks, and the orders an execution callback places
CallbackOrders == OpsOrders

NestedOrders == {o \in CallbackOrders : o.price = 2}

\* the orders of quantity 1 placed in a run of SpecModify, none at the price
\* a modification sets
ModifyOrders == {o \in UnitOrders : o.price # 4}

\* the market orders of quantity 1, placed in a run of SpecSynthetic
SyntheticOrders == {o \in UnitOrders : o.type = "MARKET"}

\* the orders placed in a run of SpecStop
StopOrders == CallbackOrders

\* the market orders and the limit orders at the upper price among them,
\* of quantity 1 or more
RiskOrders == {o \in Orders : o.quantity > 0 /\ o.price # 2}

\* OrderManager::OrderManager over MatchingEngine::MatchingEngine: the
\* callbacks are wired, the worker thread is not spawned
Init ==
    /\ running = FALSE
    /\ worker_pc = "none"
    /\ cur = NoOrder
    /\ order_queue = <<>>
    /\ order_id_counter = 0
    /\ execution_id_counter = 0
    /\ order_books = [s \in {} |-> OrderBook(s)]
    /\ active_orders = [k \in {} |-> NoOrder]
    /\ positions = [s \in {} |-> Position]
    /\ risk_limits = RiskLimits(DefaultMaxPositionValue, DefaultMaxOrderSize,
                                DefaultMaxDailyLoss)
    /\ daily_pnl = 0
    /\ max_drawdown = 0
    /\ peak_equity = 0
    /\ mutex_owner = [m \in Mutexes |-> "none"]
    /\ agenda = [t \in Threads |-> <<>>]
    /\ executions = <<>>
    /\ returned = <<>>
    /\ dequeued = <<>>
    /\ cancelled = {}
    /\ removals = {}
    /\ rejections = 0
    /\ callbacks = {}
    /\ fired = {}
    /\ stop_pc = "idle"

\* MatchingEngine::start
Start ==
    /\ ~running
    /\ running' = TRUE
    /\ worker_pc' = "idle"
    /\ UNCHANGED <<cur, order_queue, order_id_counter, execution_id_counter,
                   order_books, active_orders, positions, risk_limits,
                   daily_pnl, max_drawdown, peak_equity, mutex_owner, agenda, executions, returned, dequeued, cancelled, removals, rejections, callbacks, fired, stop_pc>>

\* OrderManager::add_symbol
AddSymbol ==
    \E symbol \in Symbols :
        /\ order_books' = add_symbol(order_books, symbol)
        /\ UNCHANGED <<running, worker_pc, cur, order_queue, order_id_counter,
                       execution_id_counter, active_orders, positions,
                       risk_limits, daily_pnl, max_drawdown, peak_equity, mutex_owner, agenda, executions, returned, dequeued,
                       cancelled,
                   removals, rejections, callbacks, fired, stop_pc>>

\* OrderManager::set_risk_limits
SetRiskLimits ==
    \E size \in SmallOrderSizes :
        /\ risk_limits' = RiskLimits(SmallMaxPositionValue, size,
                                     DefaultMaxDailyLoss)
        /\ UNCHANGED <<running, worker_pc, cur, order_queue, order_id_counter,
                       execution_id_counter, order_books, active_orders,
                       positions, daily_pnl, max_drawdown, peak_equity, mutex_owner, agenda, executions, returned, dequeued,
                       cancelled, removals, rejections, callbacks, fired, stop_pc>>

\* OrderManager::place_order(order), while fewer than max orders were
\* accepted and fewer than MaxRejections rejected
PlaceOneNotify(order, max, pc) ==
    /\ order_id_counter < max
    /\ LET r == place_order(order_queue, order_id_counter, active_orders,
                            positions, risk_limits, daily_pnl, order)
       IN /\ ~r.submitted => rejections < MaxRejections
          /\ order_queue' = r.queue
          /\ order_id_counter' = r.counter
          /\ active_orders' = r.active
          /\ returned' = IF r.submitted THEN Append(returned, r.id)
                         ELSE returned
          /\ rejections' = IF r.submitted THEN rejections
                           ELSE rejections + 1
    /\ worker_pc' = pc
    /\ UNCHANGED <<running, cur, execution_id_counter,
                   order_books, positions, risk_limits, daily_pnl, max_drawdown, peak_equity, mutex_owner, agenda,
                   executions, dequeued, cancelled, removals, callbacks,
                   fired, stop_pc>>

PlaceOne(order, max) == PlaceOneNotify(order, max, worker_pc)

\* OrderManager::place_order of an order of the set offered, for a symbol
\* the caller has registered
PlaceOrderOf(offered, max) ==
    \E order \in offered :
        /\ order.symbol \in DOMAIN order_books
        /\ PlaceOne(order, max)

PlaceOrder == PlaceOrderOf(UnitOrders, MaxOrders)

PlaceWideOrder == PlaceOrderOf(Orders, MaxWideOrders)

PlaceRiskOrder == PlaceOrderOf(RiskOrders, MaxRiskOrders)

\* OrderManager::place_order of an order for any symbol, registered or not
PlaceAnyOrder ==
    \E order \in UnitOrders \cup StrayOrders : PlaceOne(order, MaxStrayOrders)

\* OrderManager::get_order_book(symbol) on the non-const manager
GetOrderBook ==
    \E symbol \in Symbols \cup UnregisteredSymbols :
        /\ order_books' = get_order_book(order_books, symbol)
        /\ UNCHANGED <<running, worker_pc, cur, order_queue, order_id_counter,
                       execution_id_counter, active_orders, positions,
                       risk_limits, daily_pnl, max_drawdown, peak_equity, mutex_owner, agenda, executions, returned, dequeued,
                       cancelled, removals, rejections, callbacks, fired, stop_pc>>

\* OrderManager::cancel_order of an id the engine has given out
CancelOrder ==
    \E order_id \in 1..order_id_counter, trader_id \in Traders :
        LET r == OrderManager_cancel_order(order_queue, active_orders,
                                           order_id, trader_id)
        IN /\ order_queue' = r.queue
           /\ active_orders' = r.active
           /\ cancelled' = IF r.cancelled THEN cancelled \cup {order_id}
                           ELSE cancelled
           /\ UNCHANGED <<running, worker_pc, cur, order_id_counter,
                          execution_id_counter, order_books, positions,
                          risk_limits, daily_pnl, max_drawdown, peak_equity, mutex_owner, agenda, executions, returned,
                          dequeued,
                   removals, rejections, callbacks, fired, stop_pc>>

\* OrderManager::modify_order to a price and quantity of the sets offered,
\* of a queued order of one of the types named; a call that returns false
\* changes nothing
ModifyOrderOf(prices, quantities, types) ==
    \E order_id \in 1..order_id_counter, trader_id \in Traders,
       new_price \in prices, new_quantity \in quantities :
        LET r == MatchingEngine_modify_order(order_queue, order_id, new_price,
                                             new_quantity, trader_id)
            key == <<trader_id, order_id>>
        IN /\ r.found
           /\ \A i \in 1..Len(order_queue) :
                 order_queue[i].id = order_id => order_queue[i].type \in types
           /\ order_queue' = r.queue
           /\ active_orders' =
                 IF key \in DOMAIN active_orders
                 THEN [active_orders EXCEPT ![key].price = new_price,
                                            ![key].quantity = new_quantity]
                 ELSE active_orders
           /\ UNCHANGED <<running, worker_pc, cur, order_id_counter,
                          execution_id_counter, order_books, positions,
                          risk_limits, daily_pnl, max_drawdown, peak_equity, mutex_owner, agenda, executions, returned,
                          dequeued, cancelled,
                   removals, rejections, callbacks, fired, stop_pc>>

\* callers of Spec re-price the limit orders they have queued
ModifyOrder == ModifyOrderOf({4}, {1}, {"LIMIT"})

ModifyWideOrder == ModifyOrderOf({4}, {2}, Types)

\* MatchingEngine::matching_loop: wait for an order, pop it, drop the lock
WorkerDequeue ==
    /\ worker_pc = "idle"
    /\ running
    /\ order_queue # <<>>
    /\ cur' = Head(order_queue)
    /\ order_queue' = Tail(order_queue)
    /\ worker_pc' = "busy"
    /\ dequeued' = Append(dequeued, Head(order_queue).id)
    /\ UNCHANGED <<running, order_id_counter, execution_id_counter,
                   order_books, active_orders, positions, risk_limits,
                   daily_pnl, max_drawdown, peak_equity, mutex_owner, agenda, executions, returned, cancelled,
                   removals, rejections, callbacks, fired, stop_pc>>

\* history: what a step from books to books1 took out of the levels that
\* rested in books.  Each record names a removed order by the id the engine
\* gave it, with the orders of its level that were queued ahead of it and
\* behind it and still rest in books1.
Eids(orders) == {orders[i].eid : i \in 1..Len(orders)}

LevelRemovals(old, new) ==
    {[eid |-> old[i].eid,
      ahead |-> {old[k].eid : k \in 1..(i - 1)} \cap Eids(new),
      behind |-> {old[k].eid : k \in (i + 1)..Len(old)} \cap Eids(new)] :
        i \in {j \in 1..Len(old) : old[j].eid \notin Eids(new)}}

SideRemovals(old, new) ==
    UNION {LevelRemovals(old[p].orders,
                         IF p \in DOMAIN new THEN new[p].orders ELSE <<>>) :
           p \in DOMAIN old}

Removals(books, books1) ==
    UNION {SideRemovals(books[s].bids, books1[s].bids)
           \cup SideRemovals(books[s].asks, books1[s].asks) :
           s \in DOMAIN books}

\* MatchingEngine::matching_loop: process_order(order) with its callbacks
\* (on_execution, on_order_status), then take the lock again
WorkerProcessTo(pc) ==
    /\ worker_pc = "busy"
    /\ \E side \in Sides :
          LET r == process_order(order_books, cur, execution_id_counter, side)
          IN /\ order_books' = r.books
             /\ execution_id_counter' = r.counter
             /\ positions' = on_execution(positions, r.execs)
             /\ executions' = executions \o r.execs
             /\ removals' = removals \cup Removals(order_books, r.books)
    /\ active_orders' = on_order_status(active_orders, cur)
    /\ worker_pc' = pc
    /\ cur' = NoOrder
    /\ UNCHANGED <<running, order_queue, order_id_counter, risk_limits,
                   daily_pnl, max_drawdown, peak_equity, mutex_owner, agenda, returned, dequeued, cancelled, rejections, callbacks, fired, stop_pc>>

WorkerProcess == WorkerProcessTo("idle")

\* orders placed while fewer than MaxModifyOrders ids are out, and
\* OrderManager::modify_order of a queued order to the upper price and
\* quantity 2
PlaceModifyOrder == PlaceOrderOf(ModifyOrders, MaxModifyOrders)

ModifyQueuedOrder == ModifyOrderOf({4}, {2}, Types)

ModifyNext ==
    \/ Start
    \/ AddSymbol
    \/ SetRiskLimits
    \/ PlaceModifyOrder
    \/ ModifyQueuedOrder
    \/ WorkerDequeue
    \/ WorkerProcess

\* the engine with orders modified while they wait in the queue
SpecModify == Init /\ [][ModifyNext]_vars

\* OrderManager::set_execution_callback / set_position_callback
SetCallback ==
    \E kind \in {"execution", "position"} :
        /\ kind \notin callbacks
        /\ callbacks' = callbacks \cup {kind}
        /\ UNCHANGED <<running, worker_pc, cur, order_queue, order_id_counter,
                       execution_id_counter, order_books, active_orders,
                       positions, risk_limits, daily_pnl, max_drawdown, peak_equity, mutex_owner, agenda, executions,
                       returned, dequeued, cancelled, removals, rejections,
                       fired, stop_pc>>

\* the locks a set of callback invocations of one kind were made under
HeldBy(fires, kind) == UNION {c.held : c \in {d \in fires : d.kind = kind}}

\* the worker runs process_order on the order it dequeued, with the
\* subscriber callbacks registered: the position callback returns; the
\* execution callback returns, or first calls OrderManager::place_order
\* with one of the orders offered (while fewer than MaxCallbackOrders ids
\* are out). A place_order by a thread that holds manager_mutex_ or
\* engine_mutex_ locks a std::mutex its thread owns and never returns.
WorkerProcessNested ==
    /\ worker_pc = "busy"
    /\ \E side \in Sides, nested \in NestedOrders \cup {NoOrder} :
          LET r == process_order(order_books, cur, execution_id_counter, side)
              pos == on_execution(positions, r.execs)
              invoked == r.execs # <<>> /\ "execution" \in callbacks
              held == HeldBy(on_execution_fires(positions, r.execs, callbacks,
                                                process_order_held, 0),
                             "execution")
              stuck == nested # NoOrder
                           /\ held \cap {"manager_mutex", "engine_mutex"} # {}
              p == IF nested = NoOrder \/ stuck
                   THEN [id |-> 0, submitted |-> FALSE, queue |-> order_queue,
                         counter |-> order_id_counter, active |-> active_orders]
                   ELSE place_order(order_queue, order_id_counter,
                                    active_orders, pos, risk_limits, daily_pnl,
                                    nested)
          IN /\ nested # NoOrder =>
                    invoked /\ order_id_counter < MaxCallbackOrders
             /\ order_books' = r.books
             /\ execution_id_counter' = r.counter
             /\ positions' = pos
             /\ executions' = executions \o r.execs
             /\ removals' = removals \cup Removals(order_books, r.books)
             /\ fired' = on_execution_fires(positions, r.execs, callbacks,
                                            process_order_held, p.id)
             /\ order_queue' = p.queue
             /\ order_id_counter' = p.counter
             /\ returned' = IF p.submitted THEN Append(returned, p.id)
                            ELSE returned
             /\ IF stuck
                THEN /\ worker_pc' = "deadlocked"
                     /\ UNCHANGED <<cur, active_orders>>
                ELSE /\ worker_pc' = "idle"
                     /\ cur' = NoOrder
                     /\ active_orders' = on_order_status(p.active, cur)
    /\ UNCHANGED <<running, risk_limits, daily_pnl, max_drawdown, peak_equity, mutex_owner, agenda, dequeued, cancelled,
                   rejections, callbacks, stop_pc>>

\* orders placed from outside while fewer than MaxCallbackOrders ids are out
PlaceCallbackOrder == PlaceOrderOf(CallbackOrders, MaxCallbackOrders)

CallbackNext ==
    \/ Start
    \/ AddSymbol
    \/ SetCallback
    \/ PlaceCallbackOrder
    \/ WorkerDequeue
    \/ WorkerProcessNested

\* the worker thread does not stay inside process_order for ever.  This is
\* weak fairness of its processing step: the step is enabled exactly while
\* worker_pc = "busy" and every such step leaves "busy".
WorkerProcessFair == []<>(worker_pc # "busy")

\* a step of start(), stop() or matching_loop outside process_order touches
\* running_, the threads' positions and the queue alone
ControlOnly ==
    UNCHANGED <<cur, order_id_counter, execution_id_counter, order_books,
                active_orders, positions, risk_limits, daily_pnl, max_drawdown, peak_equity, mutex_owner, agenda, executions,
                returned, cancelled, removals, rejections, callbacks, fired>>

\* the positions of matching_loop at which the worker holds engine_mutex_
LockHolders == {"check", "prewait", "woken", "drain"}

\* order_cv_.notify_one() / notify_all() with one worker: a worker blocked
\* in wait is woken and evaluates the predicate again under the lock
Notified(pc) == IF pc = "waiting" THEN "check" ELSE pc

\* MatchingEngine::start: the flag is set and the thread created
StartLoop ==
    /\ ~running
    /\ worker_pc = "none"
    /\ running' = TRUE
    /\ worker_pc' = "loop"
    /\ UNCHANGED <<order_queue, dequeued, stop_pc>>
    /\ ControlOnly

\* matching_loop: `while (running_)`, then the unique_lock on engine_mutex_
LoopTest ==
    /\ worker_pc = "loop"
    /\ worker_pc' = IF running THEN "check" ELSE "exited"
    /\ UNCHANGED <<running, order_queue, dequeued, stop_pc>>
    /\ ControlOnly

\* order_cv_.wait(lock, pred): the predicate is evaluated under the lock;
\* when it is false the worker goes on to wait(lock)
WaitCheck ==
    /\ worker_pc = "check"
    /\ worker_pc' = IF order_queue # <<>> \/ ~running THEN "woken"
                    ELSE "prewait"
    /\ UNCHANGED <<running, order_queue, dequeued, stop_pc>>
    /\ ControlOnly

\* wait(lock): the lock is released and the worker blocks
WaitBlock ==
    /\ worker_pc = "prewait"
    /\ worker_pc' = "waiting"
    /\ UNCHANGED <<running, order_queue, dequeued, stop_pc>>
    /\ ControlOnly

\* a spurious wake-up, which the condition variable may but need not make
SpuriousWakeup ==
    /\ worker_pc = "waiting"
    /\ worker_pc' = "check"
    /\ UNCHANGED <<running, order_queue, dequeued, stop_pc>>
    /\ ControlOnly

\* matching_loop after wait: `if (!running_) break;`
BreakTest ==
    /\ worker_pc = "woken"
    /\ worker_pc' = IF ~running THEN "exited" ELSE "drain"
    /\ UNCHANGED <<running, order_queue, dequeued, stop_pc>>
    /\ ControlOnly

\* matching_loop: `while (!order_queue_.empty())` under the lock: pop the
\* front order and unlock, or leave the block, which releases the lock
Drain ==
    /\ worker_pc = "drain"
    /\ IF order_queue # <<>>
       THEN /\ cur' = Head(order_queue)
            /\ order_queue' = Tail(order_queue)
            /\ dequeued' = Append(dequeued, Head(order_queue).id)
            /\ worker_pc' = "busy"
       ELSE /\ worker_pc' = "loop"
            /\ UNCHANGED <<cur, order_queue, dequeued>>
    /\ UNCHANGED <<running, order_id_counter, execution_id_counter,
                   order_books, active_orders, positions, risk_limits,
                   daily_pnl, max_drawdown, peak_equity, mutex_owner, agenda, executions, returned, cancelled, removals,
                   rejections, callbacks, fired, stop_pc>>

\* matching_loop: process_order(order), then lock.lock()
DrainProcess == WorkerProcessTo("drain")

\* OrderManager::add_symbol, which takes engine_mutex_
StopAddSymbol == worker_pc \notin LockHolders /\ AddSymbol

\* OrderManager::place_order while fewer than MaxStopOrders ids are out:
\* submit_order takes engine_mutex_, pushes and calls notify_one
StopPlaceOrder ==
    \E order \in StopOrders :
        /\ order.symbol \in DOMAIN order_books
        /\ worker_pc \notin LockHolders
        /\ PlaceOneNotify(order, MaxStopOrders, Notified(worker_pc))

\* MatchingEngine::stop on a started engine: `if (running_) running_ = false`,
\* without engine_mutex_
StopFlag ==
    /\ stop_pc = "idle"
    /\ running
    /\ running' = FALSE
    /\ stop_pc' = "flagged"
    /\ UNCHANGED <<worker_pc, order_queue, dequeued>>
    /\ ControlOnly

\* stop: order_cv_.notify_all()
StopNotify ==
    /\ stop_pc = "flagged"
    /\ worker_pc' = Notified(worker_pc)
    /\ stop_pc' = "notified"
    /\ UNCHANGED <<running, order_queue, dequeued>>
    /\ ControlOnly

\* stop: matching_thread_.join() returns once the worker has left
\* matching_loop
StopJoin ==
    /\ stop_pc = "notified"
    /\ worker_pc = "exited"
    /\ stop_pc' = "returned"
    /\ UNCHANGED <<running, worker_pc, order_queue, dequeued>>
    /\ ControlOnly

StopNext ==
    \/ StartLoop
    \/ LoopTest
    \/ WaitCheck
    \/ WaitBlock
    \/ SpuriousWakeup
    \/ BreakTest
    \/ Drain
    \/ DrainProcess
    \/ StopAddSymbol
    \/ StopPlaceOrder
    \/ StopFlag
    \/ StopNotify
    \/ StopJoin

\* the engine with its worker's and stop()'s steps interleaved; both
\* threads keep running, spurious wake-ups and callers' orders need not
\* come
SpecStop ==
    /\ Init
    /\ [][StopNext]_vars
    /\ WF_vars(LoopTest)
    /\ WF_vars(WaitCheck)
    /\ WF_vars(WaitBlock)
    /\ WF_vars(BreakTest)
    /\ WF_vars(Drain)
    /\ WorkerProcessFair
    /\ WF_vars(StopNotify)
    /\ WF_vars(StopJoin)

\* the worker runs process_order on the order it dequeued and a registered
\* subscriber callback raises: the position callback inside
\* update_position, once the position is updated, or the execution callback
\* after it.  Nothing between the callback and the thread function catches:
\* the exception leaves process_order and matching_loop, std::terminate
\* runs, and the status callback is never reached.
WorkerProcessThrows ==
    /\ worker_pc = "busy"
    /\ \E side \in Sides, raising \in callbacks :
          LET r == process_order(order_books, cur, execution_id_counter, side)
              fires == on_execution_fires(positions, r.execs, callbacks,
                                          process_order_held, 0)
          IN /\ r.execs # <<>>
             /\ order_books' = r.books
             /\ execution_id_counter' = r.counter
             /\ positions' = on_execution(positions, r.execs)
             /\ executions' = executions \o r.execs
             /\ removals' = removals \cup Removals(order_books, r.books)
             /\ fired' = IF raising = "position"
                         THEN {c \in fires : c.kind = "position"}
                         ELSE fires
    /\ worker_pc' = "terminated"
    /\ UNCHANGED <<running, cur, order_queue, order_id_counter, active_orders,
                   risk_limits, daily_pnl, max_drawdown, peak_equity, mutex_owner, agenda, returned, dequeued, cancelled,
                   rejections, callbacks, stop_pc>>

\* after std::terminate the process is gone: its other threads make no
\* more calls
ProcessAlive == worker_pc # "terminated"

ThrowAddSymbol == ProcessAlive /\ AddSymbol

ThrowSetCallback == ProcessAlive /\ SetCallback

ThrowPlaceOrder == ProcessAlive /\ PlaceCallbackOrder

ThrowNext ==
    \/ Start
    \/ ThrowAddSymbol
    \/ ThrowSetCallback
    \/ ThrowPlaceOrder
    \/ WorkerDequeue
    \/ WorkerProcessNested
    \/ WorkerProcessThrows

\* the engine with subscriber callbacks that may raise
SpecThrow == Init /\ [][ThrowNext]_vars

\* the engine with subscriber callbacks registered with the OrderManager;
\* the worker thread, once started, keeps running
SpecCallbacks ==
    /\ Init
    /\ [][CallbackNext]_vars
    /\ WF_vars(WorkerDequeue)
    /\ WorkerProcessFair

\* the public operations of OrderManager
ManagerNext ==
    \/ AddSymbol
    \/ PlaceOrder
    \/ CancelOrder
    \/ ModifyOrder

Next ==
    \/ Start
    \/ ManagerNext
    \/ WorkerDequeue
    \/ WorkerProcess

WideNext ==
    \/ Start
    \/ AddSymbol
    \/ PlaceWideOrder
    \/ CancelOrder
    \/ ModifyWideOrder
    \/ WorkerDequeue
    \/ WorkerProcess

\* the core with its matching worker started, fed orders of quantity 1
Spec == Init /\ [][Next]_vars

\* the same, fed orders of every quantity offered
SpecWide == Init /\ [][WideNext]_vars

\* an OrderBook per symbol as OrderBook::OrderBook(symbol) leaves it, with
\* the manager around it as in Init
BookInit ==
    /\ running = FALSE
    /\ worker_pc = "none"
    /\ cur = NoOrder
    /\ order_queue = <<>>
    /\ order_id_counter = 0
    /\ execution_id_counter = 0
    /\ order_books = [s \in Symbols |-> OrderBook(s)]
    /\ active_orders = [k \in {} |-> NoOrder]
    /\ positions = [s \in {} |-> Position]
    /\ risk_limits = RiskLimits(DefaultMaxPositionValue, DefaultMaxOrderSize,
                                DefaultMaxDailyLoss)
    /\ daily_pnl = 0
    /\ max_drawdown = 0
    /\ peak_equity = 0
    /\ mutex_owner = [m \in Mutexes |-> "none"]
    /\ agenda = [t \in Threads |-> <<>>]
    /\ executions = <<>>
    /\ returned = <<>>
    /\ dequeued = <<>>
    /\ cancelled = {}
    /\ removals = {}
    /\ rejections = 0
    /\ callbacks = {}
    /\ fired = {}
    /\ stop_pc = "idle"

\* a call on an OrderBook changes the books, and invokes callbacks, alone
OnlyBooksChange ==
    UNCHANGED <<running, worker_pc, cur, order_queue, order_id_counter,
                execution_id_counter, active_orders, positions, risk_limits,
                daily_pnl, max_drawdown, peak_equity, mutex_owner, agenda, executions, returned, dequeued, cancelled,
                removals, rejections, callbacks, stop_pc>>

\* the orders resting in a book, counted
RECURSIVE SideSize(_)
SideSize(m) ==
    IF DOMAIN m = {} THEN 0
    ELSE LET p == MinOf(DOMAIN m)
         IN Len(m[p].orders) + SideSize(Erase(m, p))

BookSize(b) == SideSize(b.bids) + SideSize(b.asks)

\* OrderBook::set_price_update_callback(callback)
BookSetPriceCallback ==
    \E s \in DOMAIN order_books :
        /\ ~order_books[s].price_callback
        /\ order_books' =
              [order_books EXCEPT ![s] = set_price_update_callback(@)]
        /\ fired' = {}
        /\ OnlyBooksChange

\* OrderBook::set_last_price(price)
BookSetLastPrice ==
    \E s \in DOMAIN order_books, price \in Prices :
        /\ order_books[s].book_mutex = "free"
        /\ order_books' = [order_books EXCEPT ![s] = set_last_price(@, price)]
        /\ fired' = set_last_price_fires(order_books[s], price)
        /\ OnlyBooksChange

\* OrderBook::clear_book()
BookClearBook ==
    \E s \in DOMAIN order_books :
        /\ order_books[s].book_mutex = "free"
        /\ order_books' = [order_books EXCEPT ![s] = clear_book(@)]
        /\ fired' = {}
        /\ OnlyBooksChange

\* OrderBook::add_limit_order(price, quantity, side), while the book holds
\* fewer than MaxOpsOrders orders
BookAddLimitOrder ==
    \E s \in DOMAIN order_books, price \in Prices, quantity \in OpsQuantities,
       side \in Sides :
        /\ order_books[s].book_mutex = "free"
        /\ BookSize(order_books[s]) < MaxOpsOrders
        /\ order_books' =
              [order_books EXCEPT ![s] = add_limit_order(@, price, quantity, side)]
        /\ fired' = {}
        /\ OnlyBooksChange

\* OrderBook::add_order(order) with one of the orders offered, while
\* sequence_number_ is below max; every call on a book first takes its
\* book_mutex_, so none begins while the mutex is held for ever
BookAddOrderOf(offered, max) ==
    \E s \in DOMAIN order_books, order \in offered :
        /\ order_books[s].book_mutex = "free"
        /\ order_books[s].sequence_number < max
        /\ order_books' = [order_books EXCEPT ![s] = add_order(@, order)]
        /\ fired' = add_order_fires(order_books[s], order)
        /\ OnlyBooksChange

BookAddOrder == BookAddOrderOf(BookOrders, MaxBookOrders)

BookAddUnitOrder == BookAddOrderOf(OpsOrders, MaxOpsOrders)

\* OrderBook::cancel_order(order_id)
BookCancelOrder ==
    \E s \in DOMAIN order_books :
        \E order_id \in 0..order_books[s].sequence_number :
            /\ order_books[s].book_mutex = "free"
            /\ order_books' =
                  [order_books EXCEPT ![s] = OrderBook_cancel_order(@, order_id)]
            /\ fired' = {}
            /\ OnlyBooksChange

\* OrderBook::modify_order(order_id, new_price, new_quantity)
BookModifyOrder ==
    \E s \in DOMAIN order_books, new_price \in Prices,
       new_quantity \in Quantities :
        \E order_id \in 1..order_books[s].sequence_number :
            /\ order_books[s].book_mutex = "free"
            /\ order_books[s].sequence_number < MaxBookOrders
            /\ \E r \in OrderBook_modify_order(order_books[s], order_id,
                                                new_price, new_quantity) :
                  /\ order_books' = [order_books EXCEPT ![s] = r.book]
                  /\ fired' = r.fires
            /\ OnlyBooksChange

BookNext ==
    \/ BookSetPriceCallback
    \/ BookAddOrder
    \/ BookCancelOrder
    \/ BookModifyOrder

\* an OrderBook driven through add_order, cancel_order and modify_order,
\* with or without a price-update callback
SpecBook == BookInit /\ [][BookNext]_vars

BookOpsNext ==
    \/ BookSetPriceCallback
    \/ BookAddUnitOrder
    \/ BookCancelOrder
    \/ BookSetLastPrice
    \/ BookClearBook
    \/ BookAddLimitOrder

\* an OrderBook driven through add_order, cancel_order, set_last_price,
\* clear_book and add_limit_order
SpecBookOps == BookInit /\ [][BookOpsNext]_vars

\* market orders placed while fewer than MaxSyntheticOrders ids are out
PlaceSyntheticOrder == PlaceOrderOf(SyntheticOrders, MaxSyntheticOrders)

SyntheticNext ==
    \/ Start
    \/ AddSymbol
    \/ BookAddLimitOrder
    \/ PlaceSyntheticOrder
    \/ WorkerDequeue
    \/ WorkerProcess

\* the engine with books that a caller fills through
\* OrderManager::get_order_book(symbol).add_limit_order
SpecSynthetic == Init /\ [][SyntheticNext]_vars

\* OrderManager::on_execution called with an Execution of any symbol, side,
\* price and quantity offered
OnExecutionOf(symbols, prices, quantities) ==
    \E symbol \in symbols, side \in Sides, price \in prices,
       quantity \in quantities :
        /\ Len(executions) < MaxExecutions
        /\ LET execution == [Execution(side) EXCEPT
                               !.execution_id =
                                   generate_execution_id(execution_id_counter),
                               !.symbol = symbol,
                               !.price = price,
                               !.quantity = quantity]
           IN /\ positions' = on_execution(positions, <<execution>>)
              /\ executions' = Append(executions, execution)
              /\ execution_id_counter' = execution.execution_id
        /\ UNCHANGED <<running, worker_pc, cur, order_queue, order_id_counter,
                       order_books, active_orders, risk_limits, daily_pnl, max_drawdown, peak_equity, mutex_owner, agenda,
                       returned, dequeued, cancelled, removals, rejections, callbacks, fired, stop_pc>>

\* an OrderManager whose execution callback is handed any sequence of
\* Executions
OnExecution == OnExecutionOf(ExecSymbols, Prices, ExecQuantities)

SpecPositions == Init /\ [][OnExecution]_vars

\* the core fed orders and book lookups for symbols registered or not
UnregisteredNext ==
    \/ Start
    \/ AddSymbol
    \/ PlaceAnyOrder
    \/ GetOrderBook
    \/ WorkerDequeue
    \/ WorkerProcess

SpecUnregistered == Init /\ [][UnregisteredNext]_vars

\* the core under risk limits the caller sets
RiskNext ==
    \/ Start
    \/ AddSymbol
    \/ SetRiskLimits
    \/ PlaceRiskOrder
    \/ WorkerDequeue
    \/ WorkerProcess

SpecRisk == Init /\ [][RiskNext]_vars

\* an OrderManager as its constructor leaves it, driven through its public
\* operations; the worker, were it spawned, would be scheduled fairly
SpecManager ==
    Init /\ [][ManagerNext]_vars /\ WF_vars(WorkerDequeue) /\ WF_vars(WorkerProcess)

(* ---------------- properties ---------------- *)

\* ids the worker has popped and finished processing
Applied ==
    {dequeued[i] : i \in 1..Len(dequeued)}
        \ (IF worker_pc = "busy" THEN {cur.id} ELSE {})

\* the engine ids of the orders resting on either side of a book
Resting(b) ==
    UNION {Eids(b.bids[p].orders) : p \in DOMAIN b.bids}
    \cup UNION {Eids(b.asks[p].orders) : p \in DOMAIN b.asks}

\* the order records resting on either side of a book
Members(orders) == {orders[i] : i \in 1..Len(orders)}

RestingOrders(b) ==
    UNION {Members(b.bids[p].orders) : p \in DOMAIN b.bids}
    \cup UNION {Members(b.asks[p].orders) : p \in DOMAIN b.asks}

RestingAnywhere == UNION {Resting(order_books[s]) : s \in DOMAIN order_books}

\* quantity resting on one side of a book
RECURSIVE SideQty(_)
SideQty(m) ==
    IF DOMAIN m = {} THEN 0
    ELSE LET p == MinOf(DOMAIN m)
         IN SumQty(m[p].orders) + SideQty(Erase(m, p))

BidQty(books, symbol) ==
    IF symbol \in DOMAIN books THEN SideQty(books[symbol].bids) ELSE 0

AskQty(books, symbol) ==
    IF symbol \in DOMAIN books THEN SideQty(books[symbol].asks) ELSE 0

\* the Executions a step hands to the execution callback, and their quantity
NewExecutions == SubSeq(executions', Len(executions) + 1, Len(executions'))

NewExecQty == SumQty(NewExecutions)

\* a step in which the worker processes a limit / a market order
ProcessesLimit == worker_pc = "busy" /\ worker_pc' = "idle" /\ cur.type # "MARKET"

ProcessesMarket == worker_pc = "busy" /\ worker_pc' = "idle" /\ cur.type = "MARKET"

\* C1: every order place_order accepted (non-zero id) and nobody cancelled is
\* eventually dequeued by the matching worker and applied to its book, with
\* nothing asked of the caller but to construct the OrderManager, add the
\* symbol and place the order.
C1_AcceptedOrderIsProcessed ==
    \A id \in 1..MaxOrders :
        (\E i \in 1..Len(returned) : returned[i] = id)
            ~> (id \in cancelled \/ id \in Applied)

\* C2: in a limit-limit cross each side of the book loses exactly the
\* executed quantity: after the step the bid side holds what it held plus an
\* incoming buy minus the executed quantity, and likewise the ask side.
C2_CrossRemovesExecutedQuantity ==
    [][(ProcessesLimit /\ NewExecutions # <<>>) =>
          /\ BidQty(order_books', cur.symbol) =
                BidQty(order_books, cur.symbol)
                + (IF cur.side = "BUY" THEN cur.quantity ELSE 0) - NewExecQty
          /\ AskQty(order_books', cur.symbol) =
                AskQty(order_books, cur.symbol)
                + (IF cur.side = "SELL" THEN cur.quantity ELSE 0) - NewExecQty
      ]_vars

\* C3: a market order's executions sum to min(order quantity, quantity
\* resting on the opposite side), and the opposite side loses exactly that sum.
C3_MarketOrderSweeps ==
    [][ProcessesMarket =>
          LET before == IF cur.side = "BUY" THEN AskQty(order_books, cur.symbol)
                        ELSE BidQty(order_books, cur.symbol)
              after == IF cur.side = "BUY" THEN AskQty(order_books', cur.symbol)
                       ELSE BidQty(order_books', cur.symbol)
          IN /\ NewExecQty = Min2(cur.quantity, before)
             /\ after = before - NewExecQty
      ]_vars

\* C4: whenever the worker is not in the middle of an order, no book is
\* crossed: best_bid < best_ask or one side is empty.
C4_BookNeverCrossed ==
    worker_pc # "busy" =>
        \A s \in DOMAIN order_books :
            LET b == order_books[s]
            IN \/ DOMAIN b.bids = {}
               \/ DOMAIN b.asks = {}
               \/ b.best_bid < b.best_ask

\* the orders of every level rest in the order the engine numbered them
LevelInSubmissionOrder(orders) ==
    \A i, j \in 1..Len(orders) : i < j => orders[i].eid < orders[j].eid

LevelsInSubmissionOrder ==
    \A s \in DOMAIN order_books :
        /\ \A p \in DOMAIN order_books[s].bids :
              LevelInSubmissionOrder(order_books[s].bids[p].orders)
        /\ \A p \in DOMAIN order_books[s].asks :
              LevelInSubmissionOrder(order_books[s].asks[p].orders)

\* C5: price-time priority: the orders of a level rest in submission order,
\* and matching never takes an order out of a level while an order submitted
\* earlier still rests ahead of it there.
C5_PriceTimePriority ==
    /\ LevelsInSubmissionOrder
    /\ \A r \in removals : r.ahead = {}

\* matching took the head of a level and left a later order of it resting
C5_Witness ==
    \E r \in removals : r.behind # {} /\ r.ahead = {}

\* C6: every Execution of a limit-limit cross carries the id, side and
\* trader_id of the limit order whose processing made the cross.
C6_ExecutionNamesTaker ==
    [][ProcessesLimit =>
          \A i \in 1..Len(NewExecutions) :
              /\ NewExecutions[i].order_id = cur.id
              /\ NewExecutions[i].side = cur.side
              /\ NewExecutions[i].trader_id = cur.trader_id
      ]_vars

\* C7: the ids submit_order returns are positive and strictly increasing in
\* call order (so pairwise distinct), and the execution_ids of successive
\* Executions are strictly increasing.
C7_IdsStrictlyIncrease ==
    /\ \A i \in 1..Len(returned) : returned[i] > 0
    /\ \A i, j \in 1..Len(returned) : i < j => returned[i] < returned[j]
    /\ \A i, j \in 1..Len(executions) :
          i < j => executions[i].execution_id < executions[j].execution_id

\* several ids were returned and several Executions emitted
C7_Witness == Len(returned) >= 3 /\ Len(executions) >= 2

\* C8: the submission queue holds its orders in strictly increasing id
\* order, every queued id is larger than every id already popped, and the
\* worker pops ids in increasing order.
C8_QueueInIdOrder ==
    /\ \A i, j \in 1..Len(order_queue) :
          i < j => order_queue[i].id < order_queue[j].id
    /\ \A i, j \in 1..Len(dequeued) : i < j => dequeued[i] < dequeued[j]
    /\ \A i \in 1..Len(order_queue), j \in 1..Len(dequeued) :
          dequeued[j] < order_queue[i].id

\* orders were popped around a cancelled one and two more are queued
C8_Witness ==
    /\ Len(order_queue) >= 2
    /\ Len(dequeued) >= 1
    /\ \E id \in cancelled : id > dequeued[1] /\ id < order_queue[1].id

\* C9: cancel_order(id, trader_id) for an order the worker has dequeued and
\* that rests unfilled in a book returns true.
C9_CancelRestingOrder ==
    \A s \in DOMAIN order_books :
        \A o \in RestingOrders(order_books[s]) :
            MatchingEngine_cancel_order(order_queue, o.eid, o.trader_id).found

\* C10: an order whose cancel_order returned true is never popped by the
\* worker, never rests in a book and never appears in an Execution.
C10_CancelledNeverApplied ==
    \A id \in cancelled :
        /\ \A i \in 1..Len(dequeued) : dequeued[i] # id
        /\ id \notin RestingAnywhere
        /\ \A i \in 1..Len(executions) : executions[i].order_id # id

\* after a cancel returned true the worker went on to later orders and matched
C10_Witness ==
    /\ worker_pc = "idle"
    /\ executions # <<>>
    /\ \E id \in cancelled : \E i \in 1..Len(dequeued) : dequeued[i] > id

\* C11: once cancel_order(id, trader_id) has returned true, every later
\* cancel_order of that id returns false and leaves the submission queue and
\* the active-order index as they are (the call touches no book and no
\* position); so does cancel_order of a queued order under a trader_id that
\* is not the order's.
C11_CancelIdempotent ==
    /\ \A id \in cancelled, t \in Traders :
          LET r == OrderManager_cancel_order(order_queue, active_orders, id, t)
          IN ~r.cancelled /\ r.queue = order_queue /\ r.active = active_orders
    /\ \A i \in 1..Len(order_queue), t \in Traders :
          t # order_queue[i].trader_id =>
              LET r == OrderManager_cancel_order(order_queue, active_orders,
                                                 order_queue[i].id, t)
              IN ~r.cancelled /\ r.queue = order_queue
                 /\ r.active = active_orders

\* an order was cancelled while others are queued and others rest in a book
C11_Witness ==
    /\ cancelled # {}
    /\ Len(order_queue) >= 2
    /\ RestingAnywhere # {}

\* a step in which place_order accepted an order, and the order it queued
Accepted == Len(returned') = Len(returned) + 1

AcceptedOrder == order_queue'[Len(order_queue')]

\* C12: whatever the position in the symbol, place_order accepts no order
\* whose quantity exceeds RiskLimits.max_order_size.
C12_OversizedOrderRejected ==
    [][Accepted => AcceptedOrder.quantity <= risk_limits.max_order_size]_vars

\* C13: place_order accepts only valid orders: quantity above 0, a price
\* that is not negative, a symbol that is not empty.
C13_InvalidOrderRejected ==
    [][Accepted =>
          /\ AcceptedOrder.quantity > 0
          /\ AcceptedOrder.price >= 0
          /\ AcceptedOrder.symbol # ""
      ]_vars

\* C14: place_order accepts no order whose notional price * quantity
\* exceeds RiskLimits.max_position_value.
C14_NotionalLimit ==
    [][Accepted =>
          AcceptedOrder.price * AcceptedOrder.quantity
              <= risk_limits.max_position_value
      ]_vars

\* C15: a place_order call that returns 0 leaves the submission queue, the
\* order-id counter, the books, the active-order index and the positions as
\* they were, and hands nothing to the execution, order-status or position
\* callbacks.
C15_RejectionChangesNothing ==
    [][rejections' # rejections =>
          UNCHANGED <<order_queue, order_id_counter, order_books,
                      active_orders, positions, executions,
                      execution_id_counter, returned, dequeued>>
      ]_vars

\* an order was rejected while orders are queued and a position is open
C15_Witness ==
    /\ rejections > 0
    /\ order_queue # <<>>
    /\ \E s \in DOMAIN positions : positions[s].quantity # 0

\* the signed sum of the quantities of the Executions of one symbol: plus
\* for a BUY, minus otherwise
RECURSIVE SignedSum(_, _)
SignedSum(execs, symbol) ==
    IF execs = <<>> THEN 0
    ELSE (IF Head(execs).symbol # symbol THEN 0
          ELSE IF Head(execs).side = "BUY" THEN Head(execs).quantity
          ELSE -Head(execs).quantity)
         + SignedSum(Tail(execs), symbol)

Registered(books) == {s \in DOMAIN books : books[s].symbol = s}

\* C17: get_order_book(symbol) for a symbol that was never handed to
\* add_symbol creates no book for it (the caller gets an error instead).
C17_LookupCreatesNoBook ==
    \A symbol \in Symbols \cup UnregisteredSymbols :
        symbol \notin Registered(order_books) =>
            get_order_book(order_books, symbol) = order_books

\* C18: when the worker processes an order whose symbol was never handed to
\* add_symbol, the order is dropped: the set of books and every book stay as
\* they were, so nothing comes to rest, and no Execution is emitted.
C18_UnknownSymbolDropped ==
    [][(worker_pc = "busy" /\ worker_pc' = "idle"
            /\ cur.symbol \notin Registered(order_books)) =>
          /\ order_books' = order_books
          /\ NewExecutions = <<>>
      ]_vars

\* C19: the order handed to the order-status callback after its processing
\* produced Executions carries filled_quantity equal to the executed
\* quantity, with status FILLED when that is its whole quantity and PARTIAL
\* otherwise; the active-order index holds that report.
C19_StatusFollowsFills ==
    [][(worker_pc = "busy" /\ worker_pc' = "idle" /\ NewExecutions # <<>>
            /\ <<cur.trader_id, cur.id>> \in DOMAIN active_orders') =>
          LET reported == active_orders'[<<cur.trader_id, cur.id>>]
          IN /\ reported.filled_quantity = NewExecQty
             /\ reported.status = IF NewExecQty >= cur.quantity THEN "FILLED"
                                  ELSE "PARTIAL"
      ]_vars

\* the order resting in a book under this id, as <<order>>, or <<>>
RestingUnder(b, order_id) ==
    LET ob == FindOrder(b.bids, Descending(DOMAIN b.bids), order_id)
    IN IF ob # <<>> THEN ob
       ELSE FindOrder(b.asks, Ascending(DOMAIN b.asks), order_id)

\* the book cancel_order(id) and then add_order of the same order with the
\* new price and quantity leave
CancelThenAdd(b, order_id, new_price, new_quantity) ==
    LET old == RestingUnder(b, order_id)
    IN IF old = <<>> THEN b
       ELSE add_order(OrderBook_cancel_order(b, order_id),
                      [old[1] EXCEPT !.price = new_price,
                                     !.quantity = new_quantity])

\* C20: modify_order(id, new_price, new_quantity) returns, and leaves the
\* book as cancel_order(id) followed by add_order of the order with the new
\* price and quantity would (the order at the tail of its new level, totals
\* and best prices updated); for an id that does not rest the book is
\* unchanged.
C20_ModifyIsCancelThenAdd ==
    \A s \in DOMAIN order_books :
        LET b == order_books[s]
        IN b.book_mutex = "free" =>
              \A order_id \in 1..(b.sequence_number + 1), new_price \in Prices,
                 new_quantity \in Quantities :
                  \A r \in OrderBook_modify_order(b, order_id, new_price,
                                                  new_quantity) :
                      /\ r.returns
                      /\ r.book = CancelThenAdd(b, order_id, new_price,
                                                new_quantity)

\* C21: modify_order(id, new_price, new_quantity, trader_id) for an order
\* that has left the submission queue and rests in a book returns true (and
\* replaces it in the book).
C21_ModifyRestingOrder ==
    \A s \in DOMAIN order_books :
        \A o \in RestingOrders(order_books[s]) :
            \A new_price \in Prices, new_quantity \in Quantities :
                MatchingEngine_modify_order(order_queue, o.eid, new_price,
                                            new_quantity, o.trader_id).found

\* C22: the price-update callback of an OrderBook is never invoked while
\* the invoking thread holds the book's lock.
C22_PriceCallbackOutsideLock ==
    \A c \in fired : c.kind = "price" => "book_mutex" \notin c.held

\* the price levels present in a book
Levels(b) == {b.bids[p] : p \in DOMAIN b.bids} \cup
             {b.asks[p] : p \in DOMAIN b.asks}

\* C28: outside an in-progress mutation, every price level present in a
\* book has total_quantity equal to the sum of its orders' quantities,
\* total_quantity > 0, and a non-empty order list.
C28_LevelQuantity ==
    \A s \in DOMAIN order_books :
        order_books[s].book_mutex = "free" =>
            \A l \in Levels(order_books[s]) :
                /\ l.total_quantity = SumQty(l.orders)
                /\ l.total_quantity > 0
                /\ l.orders # <<>>

\* C29: after every OrderBook operation has returned, best_bid is the
\* highest bid price present, or 0 without bids, and best_ask is the lowest
\* ask price present, or 0 without asks.
C29_BestPriceCache ==
    \A s \in DOMAIN order_books :
        LET b == order_books[s]
        IN b.book_mutex = "free" =>
               /\ b.best_bid = IF DOMAIN b.bids = {} THEN 0
                               ELSE MaxOf(DOMAIN b.bids)
               /\ b.best_ask = IF DOMAIN b.asks = {} THEN 0
                               ELSE MinOf(DOMAIN b.asks)

\* bids at both prices and an ask rest in a book that add_order and
\* add_limit_order have both filled
C29_Witness ==
    \E s \in DOMAIN order_books :
        LET b == order_books[s]
        IN /\ Cardinality(DOMAIN b.bids) = 2
           /\ DOMAIN b.asks # {}
           /\ b.best_bid = 4
           /\ BookSize(b) > b.sequence_number

\* C30: whenever an operation on a book with a registered price-update
\* callback changes best_bid or best_ask, the callback is invoked with the
\* new (symbol, best_bid, best_ask).
C30_BestPriceChangeNotified ==
    [][\A s \in DOMAIN order_books \cap DOMAIN order_books' :
           LET b == order_books[s]
               after == order_books'[s]
           IN (/\ b.price_callback
               /\ <<b.best_bid, b.best_ask>> #
                      <<after.best_bid, after.best_ask>>)
              => \E c \in fired' :
                     /\ c.kind = "price"
                     /\ c.symbol = s
                     /\ c.args = <<after.best_bid, after.best_ask>>]_vars

\* C27: while the engine has no live worker, submit_order returns no fresh
\* positive id: an order is accepted only when the worker is running.
C27_SubmitNeedsWorker ==
    [][Accepted => (running /\ worker_pc # "none")]_vars

\* C23: the position callback of the OrderManager is invoked with no core
\* lock held: the invoking thread does not hold the manager lock.
C23_PositionCallbackOutsideLock ==
    \A c \in fired : c.kind = "position" => "manager_mutex" \notin c.held

\* C24: when the execution callback registered with the OrderManager runs,
\* the worker holds none of the manager, engine and book locks, and an order
\* the callback places with a nested place_order is enqueued and later
\* processed.
C24_NestedPlaceOrderCompletes ==
    /\ [](\A c \in fired : c.kind = "execution" => c.held = {})
    /\ \A id \in 1..(MaxCallbackOrders + 1) :
           (\E c \in fired : c.kind = "execution" /\ c.nested = id)
               ~> id \in Applied

\* an execution callback has placed an order, which waits in the queue, and
\* the worker has returned from process_order
C24_Witness ==
    /\ \E c \in fired :
           /\ c.kind = "execution"
           /\ c.nested # 0
           /\ order_queue # <<>>
           /\ order_queue[Len(order_queue)].id = c.nested
    /\ worker_pc = "idle"

\* C26: a subscriber callback that raises while an order is processed does
\* not end the matching worker: no exception escapes process_order and
\* terminates it.
C26_CallbackFailureContained == worker_pc # "terminated"

\* C25: after start(), a call to stop() eventually returns under every
\* interleaving of the stopping thread and the worker.
C25_StopReturns == (stop_pc = "flagged") ~> (stop_pc = "returned")

\* the orders of one side of a book, level after level in the order of keys,
\* and the orders of a book, bids before asks
RECURSIVE FlatSide(_, _)
FlatSide(m, keys) ==
    IF keys = <<>> THEN <<>>
    ELSE m[Head(keys)].orders \o FlatSide(m, Tail(keys))

Flat(b) == FlatSide(b.bids, Descending(DOMAIN b.bids))
               \o FlatSide(b.asks, Ascending(DOMAIN b.asks))

\* the levels of one side after an order was taken out of it or of the
\* other side: the totals fall by the order's quantity at its own level only
SideAfterCancel(old, new, side, removed) ==
    /\ DOMAIN new \subseteq DOMAIN old
    /\ \A p \in DOMAIN old :
           LET hit == removed.side = side /\ removed.price = p
           IN IF hit /\ Len(old[p].orders) = 1 THEN p \notin DOMAIN new
              ELSE /\ p \in DOMAIN new
                   /\ new[p].price = old[p].price
                   /\ new[p].total_quantity = old[p].total_quantity
                          - (IF hit THEN removed.quantity ELSE 0)

\* C33: OrderBook::cancel_order(id) for a resting id removes exactly that
\* order, reduces its level's total_quantity by the order's quantity, deletes
\* the level if it became empty and keeps the relative order of all other
\* orders; for an id that is not resting it leaves the whole book unchanged.
C33_CancelFrame ==
    \A s \in DOMAIN order_books :
        \A order_id \in 0..(order_books[s].sequence_number + 1) :
            LET b == order_books[s]
                after == OrderBook_cancel_order(b, order_id)
                hits == {i \in 1..Len(Flat(b)) : Flat(b)[i].id = order_id}
            IN IF hits = {} THEN after = b
               ELSE \E i \in hits :
                      /\ Flat(after) = RemoveAt(Flat(b), i)
                      /\ SideAfterCancel(b.bids, after.bids, "BUY", Flat(b)[i])
                      /\ SideAfterCancel(b.asks, after.asks, "SELL", Flat(b)[i])
                      /\ after.symbol = b.symbol
                      /\ after.sequence_number = b.sequence_number

\* the order stamped 1 has left a book in which a level still holds two
\* orders and an id occurs twice
C33_Witness ==
    \E s \in DOMAIN order_books :
        LET b == order_books[s]
        IN /\ b.sequence_number > 0
           /\ \A i \in 1..Len(Flat(b)) : Flat(b)[i].id # 1
           /\ \E l \in Levels(b) : Len(l.orders) >= 2
           /\ \E i, j \in 1..Len(Flat(b)) : i # j /\ Flat(b)[i].id = Flat(b)[j].id

\* C34: MatchingEngine::modify_order on an order still in the queue, id and
\* trader_id both matching, returns true, changes only that order's price
\* and quantity and keeps the length of the queue and the position of every
\* order; with a non-matching id or trader_id it returns false and leaves
\* the queue unchanged.
C34_ModifyQueuedOrder ==
    \A order_id \in 1..(order_id_counter + 1), trader_id \in Traders,
       new_price \in Prices, new_quantity \in Quantities :
        LET r == MatchingEngine_modify_order(order_queue, order_id, new_price,
                                             new_quantity, trader_id)
            hits == {i \in 1..Len(order_queue) :
                        /\ order_queue[i].id = order_id
                        /\ order_queue[i].trader_id = trader_id}
        IN IF hits = {} THEN ~r.found /\ r.queue = order_queue
           ELSE /\ r.found
                /\ Cardinality(hits) = 1
                /\ Len(r.queue) = Len(order_queue)
                /\ \A i \in 1..Len(order_queue) :
                       r.queue[i] =
                           IF i \in hits
                           THEN [order_queue[i] EXCEPT
                                    !.price = new_price,
                                    !.quantity = new_quantity]
                           ELSE order_queue[i]

\* an order modified to the upper price and quantity 2 waits in the queue
\* between two orders that are as they were placed
C34_Witness ==
    /\ Len(order_queue) = 3
    /\ order_queue[2].quantity = 2
    /\ order_queue[2].price = 4
    /\ order_queue[1].quantity = 1
    /\ order_queue[3].quantity = 1

\* C39: risk limits are not bypassed through modification: whenever the
\* quantity of a queued order is changed, the order with its new quantity
\* satisfies the manager's risk checks at that time, so every order the
\* worker applies has a quantity that passed them.
C39_ModifyRespectsRiskLimits ==
    [][\A i \in 1..Len(order_queue) :
           (Len(order_queue') = Len(order_queue)
                /\ order_queue'[i] # order_queue[i])
           => check_risk_limits(positions, risk_limits, daily_pnl,
                                order_queue'[i])]_vars

\* the resting side a market order is matched against, in the books before
\* the worker's step
OppositeSide ==
    IF cur.symbol \notin DOMAIN order_books THEN EmptyMap
    ELSE IF cur.side = "BUY" THEN order_books[cur.symbol].asks
    ELSE order_books[cur.symbol].bids

\* C35: every Execution produced for a market order is priced at the best
\* price of the opposite side at the moment of the match and carries the
\* market order's id, side and trader_id; against an empty opposite side no
\* Execution is produced.
C35_MarketExecution ==
    [][ProcessesMarket =>
          /\ DOMAIN OppositeSide = {} => NewExecutions = <<>>
          /\ \A i \in 1..Len(NewExecutions) :
                 /\ DOMAIN OppositeSide # {}
                 /\ NewExecutions[i].price =
                        IF cur.side = "BUY" THEN MinOf(DOMAIN OppositeSide)
                        ELSE MaxOf(DOMAIN OppositeSide)
                 /\ NewExecutions[i].order_id = cur.id
                 /\ NewExecutions[i].side = cur.side
                 /\ NewExecutions[i].trader_id = cur.trader_id
      ]_vars

\* a market BUY has been executed at the lower price and an ask rests at
\* the upper price
C35_Witness ==
    \E i \in 1..Len(executions) :
        /\ executions[i].order_id # 0
        /\ executions[i].side = "BUY"
        /\ executions[i].price = 2
        /\ \E s \in DOMAIN order_books : 4 \in DOMAIN order_books[s].asks

\* C37: add_symbol(s) for a symbol that already has a book leaves that
\* book's levels, best prices and sequence number unchanged and creates no
\* second book.
C37_AddSymbolIdempotent ==
    \A s \in DOMAIN order_books :
        LET after == add_symbol(order_books, s)
        IN /\ DOMAIN after = DOMAIN order_books
           /\ after[s] = order_books[s]
           /\ add_symbol(after, s) = after

\* a registered symbol's book holds resting orders on both sides
C37_Witness ==
    \E s \in DOMAIN order_books :
        /\ DOMAIN order_books[s].bids # {}
        /\ DOMAIN order_books[s].asks # {}
        /\ order_books[s].sequence_number >= 2

\* the side of a market order's own book side before and after the worker's
\* step, and the orders resting in the books
OwnSide(books) ==
    IF cur.symbol \notin DOMAIN books THEN EmptyMap
    ELSE IF cur.side = "BUY" THEN books[cur.symbol].bids
    ELSE books[cur.symbol].asks

\* C38: processing a market order changes only the opposite side of the
\* book: a market BUY leaves every bid level unchanged, a market SELL every
\* ask level, and no order is added to either side.
C38_MarketOrderFrame ==
    [][ProcessesMarket =>
          /\ OwnSide(order_books') = OwnSide(order_books)
          /\ cur.symbol \in DOMAIN order_books =>
                 \A o \in RestingOrders(order_books'[cur.symbol]) :
                     o \in RestingOrders(order_books[cur.symbol])
      ]_vars

(***************************************************************************)
(* Orders with quantities at the top of the unsigned range.                *)
(***************************************************************************)
MaxLargeOrders == 2

\* quantities a caller can put into the unsigned field Order::quantity
LargeQuantities == {1, 2, WordModulus - 2, WordModulus - 1}

LargeOrders ==
    {Order("AAPL", side, "LIMIT", 2, qty, trader) :
        side \in Sides, qty \in LargeQuantities, trader \in OrderTraders}

\* OrderManager::on_execution with an Execution of one unit of the symbol
OnUnitExecution == OnExecutionOf({"AAPL"}, {2}, {1})

\* OrderManager::place_order with one of the orders above
PlaceLargeOrder == PlaceOrderOf(LargeOrders, MaxLargeOrders)

\* the manager's operations while the worker is not running: the positions
\* come from on_execution, the limits from set_risk_limits
LargeNext ==
    \/ AddSymbol
    \/ SetRiskLimits
    \/ OnUnitExecution
    \/ PlaceLargeOrder

SpecLarge == Init /\ [][LargeNext]_vars

\* the position the accepted order would lead to, in unbounded integers
ProjectedPosition ==
    IF AcceptedOrder.side = "BUY"
    THEN get_position(positions, AcceptedOrder.symbol).quantity
             + AcceptedOrder.quantity
    ELSE get_position(positions, AcceptedOrder.symbol).quantity
             - AcceptedOrder.quantity

\* C36: place_order accepts an order only if |current position +/- quantity|,
\* computed without wrap-around, is at most max_order_size, for every
\* unsigned quantity of the word size.
C36_PositionCheckExact ==
    [][Accepted => Abs(ProjectedPosition) <= risk_limits.max_order_size]_vars

(***************************************************************************)
(* The daily-loss state under every value of the loss limit.               *)
(***************************************************************************)
MaxLossOrders == 3

\* values of RiskLimits::max_daily_loss a caller can set: negative, zero,
\* positive
LossLimits == {-1, 0, 1}

LossOrders == CallbackOrders

\* OrderManager::set_risk_limits with a chosen max_daily_loss
SetLossLimit ==
    \E loss \in LossLimits :
        /\ risk_limits' = RiskLimits(DefaultMaxPositionValue,
                                     DefaultMaxOrderSize, loss)
        /\ UNCHANGED <<running, worker_pc, cur, order_queue, order_id_counter,
                       execution_id_counter, order_books, active_orders,
                       positions, daily_pnl, max_drawdown, peak_equity, mutex_owner, agenda,
                       executions, returned, dequeued, cancelled, removals,
                       rejections, callbacks, fired, stop_pc>>

PlaceLossOrder == PlaceOrderOf(LossOrders, MaxLossOrders)

LossNext ==
    \/ Start
    \/ AddSymbol
    \/ SetLossLimit
    \/ PlaceLossOrder
    \/ CancelOrder
    \/ ModifyQueuedOrder
    \/ WorkerDequeue
    \/ WorkerProcess

SpecLoss == Init /\ [][LossNext]_vars

\* C40: daily_pnl, max_drawdown and peak_equity keep their initial value 0
\* under every operation, so the daily-loss check of place_order passes
\* exactly when max_daily_loss > 0.
C40_DailyLossStateConstant ==
    /\ daily_pnl = 0
    /\ max_drawdown = 0
    /\ peak_equity = 0
    /\ check_daily_loss_limit(daily_pnl, risk_limits)
           <=> risk_limits.max_daily_loss > 0

\* executions have updated a position, the loss limit is 0 and place_order
\* has rejected an order
C40_Witness ==
    /\ executions # <<>>
    /\ DOMAIN positions # {}
    /\ risk_limits.max_daily_loss = 0
    /\ rejections > 0

(***************************************************************************)
(* Lock operations and data accesses of the core's code paths.  Each       *)
(* operation is the sequence of mutex acquisitions, releases and accesses  *)
(* to shared members that its code performs, in program order; where the   *)
(* code branches on data, the operation has one sequence per branch.       *)
(***************************************************************************)
Lock(m) == [op |-> "lock", on |-> m]
Unlock(m) == [op |-> "unlock", on |-> m]
Read(member) == [op |-> "read", on |-> member]
Write(member) == [op |-> "write", on |-> member]

\* MatchingEngine::submit_order: lock_guard on engine_mutex_
MatchingEngine_submit_order_steps ==
    <<Lock("engine_mutex"), Write("order_id_counter"), Write("order_queue"),
      Unlock("engine_mutex")>>

\* MatchingEngine::cancel_order: lock_guard on engine_mutex_, the queue is
\* drained and rebuilt
MatchingEngine_cancel_order_steps ==
    <<Lock("engine_mutex"), Read("order_queue"), Write("order_queue"),
      Unlock("engine_mutex")>>

\* MatchingEngine::modify_order: lock_guard on engine_mutex_
MatchingEngine_modify_order_steps ==
    <<Lock("engine_mutex"), Read("order_queue"), Write("order_queue"),
      Unlock("engine_mutex")>>

\* MatchingEngine::get_order_book: lock_guard on engine_mutex_, released when
\* the reference is returned
get_order_book_steps ==
    <<Lock("engine_mutex"), Read("order_books"), Unlock("engine_mutex")>>

\* OrderManager::get_position
get_position_steps ==
    <<Lock("manager_mutex"), Read("positions"), Unlock("manager_mutex")>>

\* OrderManager::check_position_limits: get_position, then risk_limits_ is
\* read after the lock_guard of get_position is gone
check_position_limits_steps == get_position_steps \o <<Read("risk_limits")>>

\* OrderManager::check_daily_loss_limit
check_daily_loss_limit_steps == <<Read("daily_pnl"), Read("risk_limits")>>

\* OrderManager::check_risk_limits: && evaluates the second check only when
\* the first passed
check_risk_limits_steps ==
    {check_position_limits_steps,
     check_position_limits_steps \o check_daily_loss_limit_steps}

\* OrderManager::place_order: rejected by the risk checks, or submitted and
\* entered into active_orders_ under manager_mutex_
place_order_steps ==
    check_risk_limits_steps
    \cup {check_position_limits_steps \o check_daily_loss_limit_steps
              \o MatchingEngine_submit_order_steps
              \o <<Lock("manager_mutex"), Write("active_orders"),
                   Unlock("manager_mutex")>>}

\* OrderManager::cancel_order: the engine's cancel_order first, then, if it
\* returned true, the erase under manager_mutex_
OrderManager_cancel_order_steps ==
    {MatchingEngine_cancel_order_steps,
     MatchingEngine_cancel_order_steps
         \o <<Lock("manager_mutex"), Write("active_orders"),
              Unlock("manager_mutex")>>}

\* OrderManager::modify_order
OrderManager_modify_order_steps ==
    {MatchingEngine_modify_order_steps,
     MatchingEngine_modify_order_steps
         \o <<Lock("manager_mutex"), Read("active_orders"),
              Write("active_orders"), Unlock("manager_mutex")>>}

\* OrderManager::set_risk_limits: risk_limits_ = limits;
set_risk_limits_steps == {<<Write("risk_limits")>>}

\* OrderManager::get_risk_limits: return risk_limits_;
get_risk_limits_steps == {<<Read("risk_limits")>>}

\* OrderManager::get_total_pnl: the loop over positions_
get_total_pnl_steps == {<<Read("positions")>>}

\* OrderManager::update_position (no position callback set)
update_position_steps ==
    <<Lock("manager_mutex"), Write("positions"), Unlock("manager_mutex")>>

\* OrderManager::on_execution (no execution callback set)
on_execution_steps == update_position_steps

\* OrderManager::on_order_status
on_order_status_steps ==
    <<Lock("manager_mutex"), Read("active_orders"), Write("active_orders"),
      Unlock("manager_mutex")>>

\* mutant of OrderBook_add_order_steps: the book looks up the engine while it
\* holds book_mutex_
OrderBook_add_order_steps_engine ==
    <<Lock("book_mutex"), Write("book"), Lock("engine_mutex"),
      Read("order_books"), Unlock("engine_mutex"), Unlock("book_mutex")>>

\* OrderBook::add_order (no price callback set)
OrderBook_add_order_steps ==
    <<Lock("book_mutex"), Write("book"), Unlock("book_mutex")>>

\* OrderBook::cancel_order
OrderBook_cancel_order_steps ==
    <<Lock("book_mutex"), Write("book"), Unlock("book_mutex")>>

\* OrderBook::get_best_bid, get_best_ask, get_bid_levels, get_ask_levels
OrderBook_get_steps ==
    <<Lock("book_mutex"), Read("book"), Unlock("book_mutex")>>

\* MatchingEngine::match_orders: no crossing; crossing with an empty level
\* vector or a zero quantity; a match with its two removals and the
\* execution callback
match_orders_steps ==
    LET prices == get_order_book_steps \o OrderBook_get_steps
                      \o OrderBook_get_steps
        levels == OrderBook_get_steps \o OrderBook_get_steps
    IN {prices,
        prices \o levels,
        prices \o levels \o OrderBook_cancel_order_steps
            \o OrderBook_cancel_order_steps \o on_execution_steps}

\* MatchingEngine::process_market_order: no opposite price; no level or a
\* zero quantity; a match with or without a removal
process_market_order_steps ==
    LET price == get_order_book_steps \o OrderBook_get_steps
    IN {price,
        price \o OrderBook_get_steps,
        price \o OrderBook_get_steps \o OrderBook_cancel_order_steps
            \o on_execution_steps,
        price \o OrderBook_get_steps \o on_execution_steps}

\* MatchingEngine::process_order, the status callback at its end included
process_order_steps ==
    {p \o on_order_status_steps :
        p \in process_market_order_steps
              \cup {get_order_book_steps \o OrderBook_add_order_steps \o m :
                       m \in match_orders_steps}}

\* MatchingEngine::matching_loop, one order: the wait and the pop under
\* engine_mutex_, lock.unlock(), process_order, lock.lock(), the test of the
\* queue, and the release at the end of the iteration
matching_loop_steps ==
    {<<Lock("engine_mutex"), Read("order_queue"), Write("order_queue"),
       Unlock("engine_mutex")>>
         \o p
         \o <<Lock("engine_mutex"), Read("order_queue"),
              Unlock("engine_mutex")>> :
        p \in process_order_steps}

\* the public operations of the OrderManager a caller thread can run
CallerOperations ==
    place_order_steps \cup OrderManager_cancel_order_steps
    \cup OrderManager_modify_order_steps \cup {get_position_steps}
    \cup set_risk_limits_steps \cup get_risk_limits_steps
    \cup get_total_pnl_steps

\* everything but the lock state
data_vars == <<running, worker_pc, cur, order_queue, order_id_counter,
               execution_id_counter, order_books, active_orders, positions,
               risk_limits, daily_pnl, max_drawdown, peak_equity, executions,
               returned, dequeued, cancelled, removals, rejections,
               callbacks, fired, stop_pc>>

\* a caller thread enters one of the public operations
CallerBegins ==
    \E t \in Callers, steps \in CallerOperations :
        /\ agenda[t] = <<>>
        /\ agenda' = [agenda EXCEPT ![t] = steps]
        /\ UNCHANGED <<mutex_owner, data_vars>>

\* the worker starts on the next order
WorkerBegins ==
    \E steps \in matching_loop_steps :
        /\ agenda["worker"] = <<>>
        /\ agenda' = [agenda EXCEPT !["worker"] = steps]
        /\ UNCHANGED <<mutex_owner, data_vars>>

\* std::mutex::lock: the thread proceeds once the mutex is free
Acquire ==
    \E t \in Threads :
        /\ agenda[t] # <<>>
        /\ Head(agenda[t]).op = "lock"
        /\ mutex_owner[Head(agenda[t]).on] = "none"
        /\ mutex_owner' = [mutex_owner EXCEPT ![Head(agenda[t]).on] = t]
        /\ agenda' = [agenda EXCEPT ![t] = Tail(@)]
        /\ UNCHANGED data_vars

\* std::mutex::unlock
Release ==
    \E t \in Threads :
        /\ agenda[t] # <<>>
        /\ Head(agenda[t]).op = "unlock"
        /\ mutex_owner' = [mutex_owner EXCEPT ![Head(agenda[t]).on] = "none"]
        /\ agenda' = [agenda EXCEPT ![t] = Tail(@)]
        /\ UNCHANGED data_vars

\* a read or write of a shared member
Access ==
    \E t \in Threads :
        /\ agenda[t] # <<>>
        /\ Head(agenda[t]).op \in {"read", "write"}
        /\ agenda' = [agenda EXCEPT ![t] = Tail(@)]
        /\ UNCHANGED <<mutex_owner, data_vars>>

LockNext ==
    \/ CallerBegins
    \/ WorkerBegins
    \/ Acquire
    \/ Release
    \/ Access

SpecLocks == Init /\ [][LockNext]_vars

\* the mutexes thread t holds
Holds(t) == {m \in Mutexes : mutex_owner[m] = t}

\* thread t is at a lock() of mutex m
Requests(t, m) == agenda[t] # <<>> /\ Head(agenda[t]) = Lock(m)

\* thread t waits for a mutex that thread u holds
WaitsFor(t, u) == \E m \in Mutexes : Requests(t, m) /\ mutex_owner[m] = u

\* some threads wait for one another in a cycle: a non-empty set of threads
\* each of which waits for a thread of the set
WaitCycle ==
    \E S \in SUBSET Threads :
        S # {} /\ \A t \in S : \E u \in S : WaitsFor(t, u)

\* C31: no thread requests manager_mutex_ while it holds engine_mutex_ or a
\* book_mutex_, nor engine_mutex_ while it holds a book_mutex_, and no cycle
\* of lock waits among the threads exists.
C31_LockOrder ==
    /\ \A t \in Threads :
           /\ Requests(t, "manager_mutex")
                  => Holds(t) \cap {"engine_mutex", "book_mutex"} = {}
           /\ Requests(t, "engine_mutex") => "book_mutex" \notin Holds(t)
    /\ ~WaitCycle

\* the worker holds manager_mutex_ in update_position or on_order_status
\* while one caller waits for it and the other caller holds engine_mutex_
C31_Witness ==
    /\ mutex_owner["manager_mutex"] = "worker"
    /\ \E t \in Callers : Requests(t, "manager_mutex")
    /\ \E t \in Callers : mutex_owner["engine_mutex"] = t

\* the step thread t takes is an access to the member
Accesses(t, member) ==
    /\ agenda[t] # <<>>
    /\ Head(agenda[t]).op \in {"read", "write"}
    /\ Head(agenda[t]).on = member
    /\ agenda'[t] = Tail(agenda[t])

\* C32: every read or write of positions_, active_orders_ and risk_limits_
\* happens while the accessing thread holds manager_mutex_.
C32_ManagerStateLocked ==
    [][\A t \in Threads :
           \A member \in {"positions", "active_orders", "risk_limits"} :
               Accesses(t, member) => mutex_owner["manager_mutex"] = t]_vars

====
